---- MODULE Spec2Model ----
(***************************************************************************)
(* Model of the mail engine's authorization and token lifecycle            *)
(* (crates/mail-engine/src/lib.rs): the credential store, the session      *)
(* orchestrator (login_and_fetch, try_restore_session), the one-shot       *)
(* callback listener and the token exchanges.                              *)
(*                                                                         *)
(* Strings are sequences of one-character strings, so that trim(),         *)
(* is_empty() and ends_with() are computed as the code computes them.      *)
(* Engine invocations run one at a time (the engine keeps no state between *)
(* invocations but the store); the store itself (libsql) is assumed not to *)
(* fail.  The token endpoint, the browser, the callback client and the     *)
(* inbox API are the environment and answer nondeterministically.          *)
(*                                                                         *)
(* The application (crates/mail/src/main.rs) is modelled apart, by its UI  *)
(* state and the tasks it has in flight (AppSpec).                         *)
(***************************************************************************)
EXTENDS Integers, Sequences, FiniteSets, TLC

VARIABLES oauth_settings, oauth_tokens, env, flow, listener, pending, trace, app, tasks,
          inbox

vars == <<oauth_settings, oauth_tokens, env, flow, listener, pending, trace, app, tasks,
          inbox>>

(* ---------------------------------------------------------------- bounds *)
MaxPending == 2
MaxTasks == 2
MaxListed == 21
MaxMessages == 2

(* ------------------------------------------------------------- constants *)
CALLBACK_TIMEOUT_SECS == 180
MESSAGE_LIMIT == 20

(* Option<T>: the empty tuple, or the one-element tuple of the value. *)
None == <<>>
Some(v) == <<v>>
IsSome(o) == o # None
Unwrap(o) == o[1]

Provider == {"google", "outlook"}

(* ---------------------------------------------------------------- strings *)
WS == " "
GOOGLE_SUFFIX == <<".", "a", "p", "p", "s", ".", "g", "o", "o", "g", "l", "e", "u", "s", "e",
                   "r", "c", "o", "n", "t", "e", "n", "t", ".", "c", "o", "m">>

RECURSIVE TrimStart(_)
TrimStart(s) == IF s = <<>> THEN s
                ELSE IF Head(s) = WS THEN TrimStart(Tail(s)) ELSE s

RECURSIVE TrimEnd(_)
TrimEnd(s) == IF s = <<>> THEN s
              ELSE IF s[Len(s)] = WS THEN TrimEnd(SubSeq(s, 1, Len(s) - 1)) ELSE s

Trim(s) == TrimEnd(TrimStart(s))

EndsWith(s, suffix) ==
    /\ Len(s) >= Len(suffix)
    /\ SubSeq(s, Len(s) - Len(suffix) + 1, Len(s)) = suffix

(* ------------------------------------------------------ input universes *)
VALID_GOOGLE_ID == <<"x">> \o GOOGLE_SUFFIX
(* What the caller may ask save_provider_credentials to store. *)
CredentialInputs ==
    { [client_id |-> <<WS>>, client_secret |-> Some(<<"s">>)],
      [client_id |-> <<"x">>, client_secret |-> None],
      [client_id |-> <<WS, "x">>, client_secret |-> Some(<<WS>>)],
      [client_id |-> <<WS>> \o VALID_GOOGLE_ID \o <<WS>>, client_secret |-> Some(<<WS, "s", WS>>)] }
RefreshTokens == { <<"R">>, <<"Q">>, <<WS>> }
AccessTokens == { <<"T">>, <<"U">> }
CsrfTokens == { <<"c">> }
(* What a callback may carry as state: the issued token, or another value. *)
StateParams == CsrfTokens \cup { <<"f">> }
AuthCodes == { <<"a">> }
ErrorTexts == { <<"e">> }

(* --------------------------------------------------------------- Provider *)
label(p) == IF p = "google" THEN "Google" ELSE "Outlook"

(* ------------------------------------------------------- credential store *)
(* Both tables are sets of rows; PRIMARY KEY(provider) is kept by the      *)
(* ON CONFLICT(provider) DO UPDATE upserts below.                          *)
empty_to_none(value) ==
    LET trimmed == Trim(value) IN IF trimmed = <<>> THEN None ELSE Some(trimmed)

normalized_secret(secret) ==
    IF secret = None THEN None
    ELSE LET trimmed == Trim(Unwrap(secret)) IN
         IF trimmed = <<>> THEN None ELSE Some(trimmed)

Credentials(id, secret) == [client_id |-> id, client_secret |-> secret]

(* SELECT provider, client_id, COALESCE(client_secret, '') FROM oauth_settings *)
load_oauth_settings(settings) ==
    [p \in Provider |->
        IF \E r \in settings : r.provider = p
        THEN LET r == CHOOSE r \in settings : r.provider = p
                 client_secret_raw == IF r.client_secret = None THEN <<>>
                                      ELSE Unwrap(r.client_secret)
             IN  Some(Credentials(r.client_id, empty_to_none(client_secret_raw)))
        ELSE None]

(* Mutant of save_provider_credentials: a blank client id is stored too. *)
save_provider_credentials_unchecked(settings, provider, credentials) ==
    [err |-> None,
     settings |-> {r \in settings : r.provider # provider} \cup
                  {[provider |-> provider, client_id |-> Trim(credentials.client_id),
                    client_secret |-> normalized_secret(credentials.client_secret)]}]

(* Mutant of save_provider_credentials: the client id is stored as given. *)
save_provider_credentials_raw(settings, provider, credentials) ==
    IF Trim(credentials.client_id) = <<>>
    THEN [err |-> Some([kind |-> "ValidationError", detail |-> "client id mag niet leeg zijn"]),
          settings |-> settings]
    ELSE [err |-> None,
          settings |-> {r \in settings : r.provider # provider} \cup
                       {[provider |-> provider, client_id |-> credentials.client_id,
                         client_secret |-> normalized_secret(credentials.client_secret)]}]

(* Result of save_provider_credentials: the error, or the new table. *)
save_provider_credentials(settings, provider, credentials) ==
    LET client_id == Trim(credentials.client_id) IN
    IF client_id = <<>>
    THEN [err |-> Some([kind |-> "ValidationError", detail |-> "client id mag niet leeg zijn"]),
          settings |-> settings]
    ELSE [err |-> None,
          settings |-> {r \in settings : r.provider # provider} \cup
                       {[provider |-> provider, client_id |-> client_id,
                         client_secret |-> normalized_secret(credentials.client_secret)]}]

load_google_credentials_from_env(e) ==
    IF e.MAIL_GOOGLE_CLIENT_ID = None THEN None
    ELSE LET client_id == Trim(Unwrap(e.MAIL_GOOGLE_CLIENT_ID)) IN
         IF client_id = <<>> THEN None
         ELSE Some(Credentials(client_id, normalized_secret(e.MAIL_GOOGLE_CLIENT_SECRET)))

(* Mutant of load_provider_credentials: the environment fallback serves  *)
(* every provider.                                                       *)
load_provider_credentials_env_for_all(settings, e, provider) ==
    IF IsSome(load_oauth_settings(settings)[provider])
    THEN load_oauth_settings(settings)[provider]
    ELSE load_google_credentials_from_env(e)

load_provider_credentials(settings, e, provider) ==
    LET saved == load_oauth_settings(settings) IN
    IF provider = "google"
    THEN (IF IsSome(saved["google"]) THEN saved["google"]
          ELSE load_google_credentials_from_env(e))
    ELSE saved["outlook"]

(* SELECT refresh_token FROM oauth_tokens WHERE provider = ?1 *)
load_refresh_token(tokens, provider) ==
    IF \E r \in tokens : r.provider = provider
    THEN LET r == CHOOSE r \in tokens : r.provider = provider IN
         IF Trim(r.refresh_token) = <<>> THEN None ELSE Some(r.refresh_token)
    ELSE None

(* Mutant of save_refresh_token: the INSERT has no ON CONFLICT clause and *)
(* the table no key.                                                     *)
save_refresh_token_appends(tokens, provider, refresh_token) ==
    tokens \cup {[provider |-> provider, refresh_token |-> refresh_token]}

save_refresh_token(tokens, provider, refresh_token) ==
    {r \in tokens : r.provider # provider} \cup
    {[provider |-> provider, refresh_token |-> refresh_token]}

(* Mutant of clear_refresh_token: the DELETE removes nothing. *)
clear_refresh_token_keeps(tokens, provider) == tokens

clear_refresh_token(tokens, provider) ==
    {r \in tokens : r.provider # provider}

(* Mutant of validate_credentials: only emptiness is tested. *)
validate_credentials_nonempty_only(provider, credentials) ==
    IF Trim(credentials.client_id) = <<>>
    THEN Some([kind |-> "ValidationError", detail |-> "Client ID is leeg."])
    ELSE None

validate_credentials(provider, credentials) ==
    LET client_id == Trim(credentials.client_id) IN
    IF client_id = <<>>
    THEN Some([kind |-> "ValidationError", detail |-> "Client ID is leeg."])
    ELSE IF provider = "google" /\ ~EndsWith(client_id, GOOGLE_SUFFIX)
    THEN Some([kind |-> "ValidationError", detail |-> "Google Client ID lijkt ongeldig."])
    ELSE None

(* ------------------------------------------------------- redirect target *)
(* A configured URI is either text Url::parse rejects, or its components.  *)
Uri(scheme, host, port, path) ==
    [wellformed |-> TRUE, scheme |-> scheme, host |-> Some(host), port |-> port, path |-> path]
NOT_A_URL == [wellformed |-> FALSE, scheme |-> "", host |-> None, port |-> None, path |-> ""]

DEFAULT_REDIRECT_URL == Uri("http", "127.0.0.1", Some(53682), "/callback")

RedirectUris == { Uri("https", "127.0.0.1", Some(53682), "/callback"),
                  Uri("http", "example.com", Some(53682), "/callback"),
                  Uri("http", "localhost", None, ""),
                  Uri("http", "localhost", None, "/other"),
                  NOT_A_URL }

(* Url::parse: the empty path of a special scheme (http, https, ...) is "/" *)
UrlParse(raw) ==
    IF ~raw.wellformed THEN None
    ELSE Some([raw EXCEPT !.path = IF raw.path = ""
                                      /\ raw.scheme \in {"http", "https", "ws", "wss", "ftp", "file"}
                                   THEN "/" ELSE raw.path])

(* Url::port_or_known_default: the schemes the url crate knows a port for. *)
port_or_known_default(url) ==
    IF IsSome(url.port) THEN url.port
    ELSE IF url.scheme \in {"http", "ws"} THEN Some(80)
    ELSE IF url.scheme \in {"https", "wss"} THEN Some(443)
    ELSE IF url.scheme = "ftp" THEN Some(21)
    ELSE None

Err(kind, detail) == [kind |-> kind, detail |-> detail]

(* redirect_url(): Result<Url> as [err, url] *)
redirect_url(e) ==
    LET raw == IF e.MAIL_OAUTH_REDIRECT_URI = None THEN DEFAULT_REDIRECT_URL
               ELSE Unwrap(e.MAIL_OAUTH_REDIRECT_URI)
        parsed == UrlParse(raw)
    IN  IF parsed = None
        THEN [err |-> Some(Err("ValidationError", "ongeldige MAIL_OAUTH_REDIRECT_URI")), url |-> None]
        ELSE [err |-> None, url |-> parsed]

(* Mutant of RedirectTarget::from_url: the host is not examined. *)
RedirectTarget_from_url_any_host(url) ==
    IF url.scheme # "http"
    THEN [err |-> Some(Err("ConfigurationError", "redirect URI moet http zijn")), target |-> None]
    ELSE IF url.host = None
    THEN [err |-> Some(Err("ConfigurationError", "redirect URI mist host")), target |-> None]
    ELSE IF port_or_known_default(url) = None
    THEN [err |-> Some(Err("ConfigurationError", "redirect URI mist poort")), target |-> None]
    ELSE IF url.path = "" \/ url.path = "/"
    THEN [err |-> Some(Err("ConfigurationError", "redirect URI pad moet specifiek zijn")),
          target |-> None]
    ELSE [err |-> None,
          target |-> Some([host |-> Unwrap(url.host), port |-> Unwrap(port_or_known_default(url)),
                           path |-> url.path])]

(* RedirectTarget::from_url: Result<RedirectTarget> as [err, target] *)
RedirectTarget_from_url(url) ==
    IF url.scheme # "http"
    THEN [err |-> Some(Err("ConfigurationError", "redirect URI moet http zijn")), target |-> None]
    ELSE IF url.host = None
    THEN [err |-> Some(Err("ConfigurationError", "redirect URI mist host")), target |-> None]
    ELSE IF Unwrap(url.host) # "127.0.0.1" /\ Unwrap(url.host) # "localhost"
    THEN [err |-> Some(Err("ConfigurationError", "redirect URI host moet localhost of 127.0.0.1 zijn")),
          target |-> None]
    ELSE IF port_or_known_default(url) = None
    THEN [err |-> Some(Err("ConfigurationError", "redirect URI mist poort")), target |-> None]
    ELSE IF url.path = "" \/ url.path = "/"
    THEN [err |-> Some(Err("ConfigurationError", "redirect URI pad moet specifiek zijn")),
          target |-> None]
    ELSE [err |-> None,
          target |-> Some([host |-> Unwrap(url.host), port |-> Unwrap(port_or_known_default(url)),
                           path |-> url.path])]

(* ------------------------------------------------------ callback requests *)
(* What one inbound connection delivers: nothing before the read timeout   *)
(* ("silent"), zero bytes ("empty"), a request line without a target       *)
(* ("noline"), a target Url::parse rejects ("badurl"), or a request target *)
(* with its path and its code, state and error query parameters.           *)
Request(kind, path, code, state, error) ==
    [kind |-> kind, path |-> path, code |-> code, state |-> state, error |-> error]

CallbackPaths == {"/callback", "/other"}

ParsedRequests ==
    { Request("ok", path, code, state, error) :
        path \in CallbackPaths,
        code \in {None} \cup {Some(c) : c \in AuthCodes},
        state \in {None} \cup {Some(c) : c \in StateParams},
        error \in {None} \cup {Some(t) : t \in ErrorTexts} }

UnparsedRequests ==
    { Request(kind, "", None, None, None) : kind \in {"silent", "empty", "noline", "badurl"} }

(* Mutant of parse_callback_params: the state parameter is not compared. *)
parse_callback_params_no_state(callback_url, target, expected_state) ==
    IF callback_url.path # target.path
    THEN [status |-> "400 Bad Request", body |-> "Ongeldige callback path",
          code |-> [err |-> Some([kind |-> "CallbackPathMismatch", detail |-> callback_url.path]),
                    ok |-> None]]
    ELSE IF IsSome(callback_url.error)
    THEN [status |-> "400 Bad Request", body |-> "OAuth login mislukt",
          code |-> [err |-> Some([kind |-> "AuthorizationDenied",
                                  detail |-> Unwrap(callback_url.error)]), ok |-> None]]
    ELSE IF IsSome(callback_url.code)
    THEN [status |-> "200 OK", body |-> "Login geslaagd. Je kunt dit tabblad sluiten.",
          code |-> [err |-> None, ok |-> callback_url.code]]
    ELSE [status |-> "400 Bad Request", body |-> "OAuth callback bevat geen code",
          code |-> [err |-> Some([kind |-> "MissingAuthorizationCode",
                                  detail |-> "OAuth callback bevat geen code"]), ok |-> None]]

(* Mutant of parse_callback_params: state is compared before error is looked at. *)
parse_callback_params_state_first(callback_url, target, expected_state) ==
    IF callback_url.path # target.path
    THEN [status |-> "400 Bad Request", body |-> "Ongeldige callback path",
          code |-> [err |-> Some([kind |-> "CallbackPathMismatch", detail |-> callback_url.path]),
                    ok |-> None]]
    ELSE IF callback_url.state # Some(expected_state)
    THEN [status |-> "400 Bad Request", body |-> "OAuth state mismatch",
          code |-> [err |-> Some([kind |-> "CsrfMismatch", detail |-> "OAuth state mismatch"]),
                    ok |-> None]]
    ELSE IF IsSome(callback_url.error)
    THEN [status |-> "400 Bad Request", body |-> "OAuth login mislukt",
          code |-> [err |-> Some([kind |-> "AuthorizationDenied",
                                  detail |-> Unwrap(callback_url.error)]), ok |-> None]]
    ELSE IF IsSome(callback_url.code)
    THEN [status |-> "200 OK", body |-> "Login geslaagd. Je kunt dit tabblad sluiten.",
          code |-> [err |-> None, ok |-> callback_url.code]]
    ELSE [status |-> "400 Bad Request", body |-> "OAuth callback bevat geen code",
          code |-> [err |-> Some([kind |-> "MissingAuthorizationCode",
                                  detail |-> "OAuth callback bevat geen code"]), ok |-> None]]

(* parse_callback_params: Ok((status, body, code)) with code a Result<String> *)
parse_callback_params(callback_url, target, expected_state) ==
    IF callback_url.path # target.path
    THEN [status |-> "400 Bad Request", body |-> "Ongeldige callback path",
          code |-> [err |-> Some(Err("CallbackPathMismatch", callback_url.path)), ok |-> None]]
    ELSE IF IsSome(callback_url.error)
    THEN [status |-> "400 Bad Request", body |-> "OAuth login mislukt",
          code |-> [err |-> Some(Err("AuthorizationDenied", Unwrap(callback_url.error))), ok |-> None]]
    ELSE IF callback_url.state # Some(expected_state)
    THEN [status |-> "400 Bad Request", body |-> "OAuth state mismatch",
          code |-> [err |-> Some(Err("CsrfMismatch", "OAuth state mismatch")), ok |-> None]]
    ELSE IF IsSome(callback_url.code)
    THEN [status |-> "200 OK", body |-> "Login geslaagd. Je kunt dit tabblad sluiten.",
          code |-> [err |-> None, ok |-> callback_url.code]]
    ELSE [status |-> "400 Bad Request", body |-> "OAuth callback bevat geen code",
          code |-> [err |-> Some(Err("MissingAuthorizationCode", "OAuth callback bevat geen code")),
                    ok |-> None]]

(* The first connection of a flow is any request aimed at the default     *)
(* path (under a redirect URI with another path these all miss it), or    *)
(* one aimed at the other path.  The ones queued behind it are never      *)
(* read: what they carry matters only in that it differs from what the    *)
(* first one carried.                                                     *)
Requests ==
    UnparsedRequests
    \cup { r \in ParsedRequests : r.path = "/callback" }
    \cup { Request("ok", "/other", Some(<<"a">>), Some(c), None) : c \in StateParams }
LaterRequest(first) ==
    IF first.kind = "ok" /\ first.error = None
    THEN Request("ok", "/callback", None, None, Some(<<"e">>))
    ELSE Request("ok", "/callback", Some(<<"a">>), first.state, None)

(* ------------------------------------------------------- token endpoint *)
(* The endpoint's answer to an exchange: a rejection, or a TokenSet. *)
TokenSet(access_token, refresh_token) ==
    [access_token |-> access_token, refresh_token |-> refresh_token]
REJECTED == [accepted |-> FALSE, token_set |-> None]
TokenResponses ==
    {REJECTED} \cup
    { [accepted |-> TRUE, token_set |-> Some(TokenSet(a, r))] :
        a \in AccessTokens, r \in {None} \cup {Some(t) : t \in RefreshTokens} }

(* ------------------------------------------------------------------ state *)
(* The process environment: one variable is varied at a time. *)
Environment(id, secret, uri) ==
    [MAIL_GOOGLE_CLIENT_ID |-> id, MAIL_GOOGLE_CLIENT_SECRET |-> secret,
     MAIL_OAUTH_REDIRECT_URI |-> uri]
Environments ==
    { Environment(id, None, None) : id \in {None, Some(<<WS>>), Some(VALID_GOOGLE_ID)} }
    \cup { Environment(None, None, Some(u)) : u \in RedirectUris }

IdleFlow ==
    [op |-> "idle", provider |-> None, pc |-> "idle", credentials |-> None,
     redirect_target |-> None, stored_refresh |-> None, csrf_state |-> None,
     accepted |-> 0, stream |-> None, response |-> None, code |-> None,
     token_set |-> None, result |-> None]

Event(ev, arg) == [ev |-> ev, arg |-> arg]

Ok(value) == [ok |-> TRUE, value |-> value]
Failed(error) == [ok |-> FALSE, value |-> error]

(* The placeholders of the inbox adapters and the result they build. *)
NO_SUBJECT == <<"(geen onderwerp)">>
UNKNOWN == <<"(onbekend)">>
NO_BODY == <<"(geen inhoud)">>
UNKNOWN_ACCOUNT == <<"(onbekend account)">>

Letters == <<"a", "b", "c", "d", "e", "f", "g", "h", "i", "j", "k", "l", "m",
             "n", "o", "p", "q", "r", "s", "t", "u", "v", "w", "x", "y", "z">>
Letter(i) == Letters[((i - 1) % Len(Letters)) + 1]

MailMessage(subject, from, date, body) ==
    [subject |-> subject, from |-> from, date |-> date, body |-> body]
LoginResult(provider, account, messages) ==
    [provider |-> provider, account |-> account, messages |-> messages]

(* fetch_inbox when it is not running. *)
IdleInbox ==
    [pc |-> "idle", provider |-> None, me |-> None, listed |-> <<>>, refs |-> <<>>,
     messages |-> <<>>, detail_requests |-> 0, result |-> None]

(* The application before it is started: default state, no task. *)
DEFAULT_GOOGLE_CLIENT_ID == <<>>
MailFolder == { "Inbox", "Starred", "Sent", "Drafts", "Spam", "Trash" }
MailApp_default == [state |-> "Idle", show_google_setup |-> FALSE,
                    google_client_id |-> DEFAULT_GOOGLE_CLIENT_ID,
                    messages |-> <<>>, selected_folder |-> "Inbox",
                    selected_message |-> None]
NoTasks == [load |-> 0, restore |-> 0, login |-> 0, save |-> 0]

Init ==
    /\ oauth_settings = {}
    /\ oauth_tokens = {}
    /\ env \in Environments
    /\ flow = IdleFlow
    /\ listener = "unbound"
    /\ pending = <<>>
    /\ trace = <<>>
    /\ app = MailApp_default
    /\ tasks = NoTasks
    /\ inbox = IdleInbox

(* -------------------------------------------------- save_provider_credentials *)
(* Mutant of tokens_after_save: new credentials drop the provider's token. *)
tokens_after_save_cleared(tokens, provider) == clear_refresh_token(tokens, provider)

(* Lines 139-152: the one statement of save_provider_credentials writes to *)
(* oauth_settings; oauth_tokens is a table of its own (lines 461-467).     *)
tokens_after_save(tokens, provider) == tokens

SaveCredentials(provider, credentials) ==
    /\ flow.pc = "idle"
    /\ LET saved == save_provider_credentials(oauth_settings, provider, credentials) IN
       /\ oauth_settings' = saved.settings
       /\ oauth_tokens' = IF saved.err = None THEN tokens_after_save(oauth_tokens, provider)
                          ELSE oauth_tokens
       /\ flow' = [IdleFlow EXCEPT !.op = "save", !.provider = provider, !.pc = "done",
                                   !.credentials = Some(credentials),
                                   !.result = IF saved.err = None THEN Ok("saved")
                                              ELSE Failed(Unwrap(saved.err))]
    /\ UNCHANGED <<env, listener, pending, trace, app, tasks, inbox>>

(* ------------------------------------------------------- login_and_fetch *)
(* Mutant of login_prepare: with a stored refresh token the redirect URI *)
(* is left unresolved until the listener is needed.                      *)
login_prepare_lazy_target(settings, tokens, e, provider) ==
    LET creds == load_provider_credentials(settings, e, provider)
        none == [credentials |-> None, redirect_target |-> None, stored_refresh |-> None]
    IN  IF creds = None
        THEN [err |-> Some(Err("MissingCredentials", label(provider)))] @@ none
        ELSE IF validate_credentials(provider, Unwrap(creds)) # None
        THEN [err |-> validate_credentials(provider, Unwrap(creds))] @@ none
        ELSE IF IsSome(load_refresh_token(tokens, provider))
        THEN [err |-> None, credentials |-> creds, redirect_target |-> None,
              stored_refresh |-> load_refresh_token(tokens, provider)]
        ELSE IF redirect_url(e).err # None
        THEN [err |-> redirect_url(e).err] @@ none
        ELSE IF RedirectTarget_from_url(Unwrap(redirect_url(e).url)).err # None
        THEN [err |-> RedirectTarget_from_url(Unwrap(redirect_url(e).url)).err] @@ none
        ELSE [err |-> None, credentials |-> creds,
              redirect_target |-> RedirectTarget_from_url(Unwrap(redirect_url(e).url)).target,
              stored_refresh |-> load_refresh_token(tokens, provider)]

(* Lines 159-175: everything before the first network request. *)
login_prepare(settings, tokens, e, provider) ==
    LET creds == load_provider_credentials(settings, e, provider)
        none == [credentials |-> None, redirect_target |-> None, stored_refresh |-> None]
    IN  IF creds = None
        THEN [err |-> Some(Err("MissingCredentials", label(provider)))] @@ none
        ELSE IF validate_credentials(provider, Unwrap(creds)) # None
        THEN [err |-> validate_credentials(provider, Unwrap(creds))] @@ none
        ELSE IF redirect_url(e).err # None
        THEN [err |-> redirect_url(e).err] @@ none
        ELSE IF RedirectTarget_from_url(Unwrap(redirect_url(e).url)).err # None
        THEN [err |-> RedirectTarget_from_url(Unwrap(redirect_url(e).url)).err] @@ none
        ELSE [err |-> None, credentials |-> creds,
              redirect_target |-> RedirectTarget_from_url(Unwrap(redirect_url(e).url)).target,
              stored_refresh |-> load_refresh_token(tokens, provider)]

LoginStart(provider) ==
    /\ flow.pc = "idle"
    /\ LET prep == login_prepare(oauth_settings, oauth_tokens, env, provider) IN
       flow' = IF prep.err # None
               THEN [IdleFlow EXCEPT !.op = "login", !.provider = provider, !.pc = "done",
                                     !.result = Failed(Unwrap(prep.err))]
               ELSE [IdleFlow EXCEPT !.op = "login", !.provider = provider,
                                     !.pc = IF IsSome(prep.stored_refresh) THEN "refresh"
                                            ELSE "authorize",
                                     !.credentials = prep.credentials,
                                     !.redirect_target = prep.redirect_target,
                                     !.stored_refresh = prep.stored_refresh]
    /\ UNCHANGED <<oauth_settings, oauth_tokens, env, listener, pending, trace, app, tasks, inbox>>

(* Mutant of persist_refresh_token: a response without a refresh token   *)
(* wipes the stored one.                                                 *)
persist_refresh_token_wipes(tokens, provider, token_set) ==
    IF IsSome(token_set.refresh_token)
    THEN save_refresh_token(tokens, provider, Unwrap(token_set.refresh_token))
    ELSE clear_refresh_token(tokens, provider)

(* Mutant of persist_refresh_token: a blank refresh token is not saved. *)
persist_refresh_token_nonblank_only(tokens, provider, token_set) ==
    IF IsSome(token_set.refresh_token) /\ Trim(Unwrap(token_set.refresh_token)) # <<>>
    THEN save_refresh_token(tokens, provider, Unwrap(token_set.refresh_token))
    ELSE tokens

(* Lines 180-182, 219-221 and 258-260: persist the refresh token of a response. *)
persist_refresh_token(tokens, provider, token_set) ==
    IF IsSome(token_set.refresh_token)
    THEN save_refresh_token(tokens, provider, Unwrap(token_set.refresh_token))
    ELSE tokens

persist_events(token_set) ==
    IF IsSome(token_set.refresh_token)
    THEN <<Event("save_refresh_token", Unwrap(token_set.refresh_token))>>
    ELSE <<>>

(* Mutant of login_after_rejected_refresh: the rejection ends the call. *)
login_after_rejected_refresh_gives_up == "done"

(* Lines 185-191: where login_and_fetch goes when the refresh is rejected. *)
login_after_rejected_refresh == "authorize"

(* Mutant of login_after_refresh: the flow falls through to the browser. *)
login_after_refresh_falls_through == "authorize"

(* Lines 179-184: where login_and_fetch goes when the refresh succeeds. *)
login_after_refresh == "fetch"

(* Lines 177-193: exchange_refresh_token and the match on its result. *)
LoginRefresh(response) ==
    /\ flow.op = "login" /\ flow.pc = "refresh"
    /\ LET presented == Event("exchange_refresh_token", Unwrap(flow.stored_refresh)) IN
       IF ~response.accepted
       THEN /\ oauth_tokens' = clear_refresh_token(oauth_tokens, flow.provider)
            /\ flow' = [flow EXCEPT !.pc = login_after_rejected_refresh]
            /\ trace' = trace \o <<presented, Event("refresh_rejected", None),
                                   Event("clear_refresh_token", None)>>
       ELSE /\ oauth_tokens' = persist_refresh_token(oauth_tokens, flow.provider, Unwrap(response.token_set))
            /\ flow' = [flow EXCEPT !.pc = login_after_refresh, !.token_set = response.token_set]
            /\ trace' = trace \o <<presented, Event("refresh_ok", Unwrap(response.token_set))>>
                              \o persist_events(Unwrap(response.token_set))
    /\ UNCHANGED <<oauth_settings, env, listener, pending, app, tasks, inbox>>

(* Mutant of force_consent: Google is always asked for consent. *)
force_consent_always(provider, stored_refresh) == provider = "google"

(* Line 204: the forced offline-access and consent parameters. *)
force_consent(provider, stored_refresh) == provider = "google" /\ stored_refresh = None

(* Lines 195-212: PKCE pair, CSRF token, authorization URL, browser. *)
LoginAuthorize(csrf, opened) ==
    /\ flow.op = "login" /\ flow.pc = "authorize"
    /\ trace' = Append(trace, Event("browser_open",
                    [state |-> csrf, consent |-> force_consent(flow.provider, flow.stored_refresh)]))
    /\ flow' = IF opened
               THEN [flow EXCEPT !.pc = "bind", !.csrf_state = Some(csrf)]
               ELSE [flow EXCEPT !.pc = "done", !.csrf_state = Some(csrf),
                                 !.result = Failed(Err("BrowserError", "browser kon niet worden geopend"))]
    /\ UNCHANGED <<oauth_settings, oauth_tokens, env, listener, pending, app, tasks, inbox>>

(* --------------------------------------------------- wait_for_oauth_code *)
(* Mutant of release_listener: an error return leaves the port bound. *)
release_listener_leaks(l, failed) == IF failed THEN l ELSE "unbound"

(* The TcpListener is a local of wait_for_oauth_code: it is dropped, and   *)
(* the port released, when the function returns, by `?` or by its value.   *)
release_listener(l, failed) == "unbound"

(* Mutant of login_after_wait_error: the browser flow is started again. *)
login_after_wait_error_relaunches == "authorize"

(* Line 214: `?` on the result of wait_for_oauth_code ends login_and_fetch. *)
login_after_wait_error == "done"

(* Return of wait_for_oauth_code with result (an error, or the code). *)
WaitReturns(error, code, events) ==
    /\ listener' = release_listener(listener, error # None)
    /\ pending' = IF listener' = "unbound" THEN <<>> ELSE pending
    /\ trace' = trace \o events \o
                (IF listener' = "unbound" THEN <<Event("close_listener", None)>> ELSE <<>>)
    /\ flow' = IF error # None
               THEN [flow EXCEPT !.pc = login_after_wait_error, !.stream = None, !.response = None,
                                 !.result = Failed(Unwrap(error))]
               ELSE [flow EXCEPT !.pc = "exchange", !.stream = None, !.response = None,
                                 !.code = code]

(* Lines 572-579: TcpListener::bind; the port may be held by someone else. *)
CallbackBind(free) ==
    /\ flow.op = "login" /\ flow.pc = "bind"
    /\ IF free /\ listener = "unbound"
       THEN /\ listener' = "bound"
            /\ flow' = [flow EXCEPT !.pc = "accept"]
            /\ trace' = Append(trace, Event("bind", flow.redirect_target))
       ELSE /\ listener' = listener
            /\ flow' = [flow EXCEPT !.pc = "done",
                          !.result = Failed(Err("CallbackBindError", "kan callback server niet starten"))]
            /\ trace' = trace
    /\ UNCHANGED <<oauth_settings, oauth_tokens, env, pending, app, tasks, inbox>>

(* A client connects to the bound port and queues in the backlog. *)
ClientConnect(request) ==
    /\ listener = "bound"
    /\ Len(pending) < MaxPending
    /\ pending # <<>> => request = LaterRequest(pending[1])
    /\ pending' = Append(pending, request)
    /\ UNCHANGED <<oauth_settings, oauth_tokens, env, flow, listener, trace, app, tasks, inbox>>

(* Mutant of accept_next: the connection that arrived last is served. *)
accept_next_latest(queue, accepted) == queue[Len(queue)]

(* Lines 581-586: the one listener.accept() of the flow. *)
accept_next(queue, accepted) == queue[accepted + 1]

CallbackAccept ==
    /\ flow.op = "login" /\ flow.pc = "accept"
    /\ Len(pending) > flow.accepted
    /\ flow' = [flow EXCEPT !.pc = "read", !.accepted = @ + 1,
                            !.stream = Some(accept_next(pending, flow.accepted))]
    /\ trace' = Append(trace, Event("accept", accept_next(pending, flow.accepted)))
    /\ UNCHANGED <<oauth_settings, oauth_tokens, env, listener, pending, app, tasks, inbox>>

(* Mutant of CallbackAcceptTimeout: accept() is awaited without a timeout. *)
CallbackAcceptTimeout_never ==
    /\ flow.op = "login" /\ flow.pc = "accept"
    /\ FALSE
    /\ UNCHANGED vars

(* Lines 581-586: nobody connected within CALLBACK_TIMEOUT_SECS. *)
CallbackAcceptTimeout ==
    /\ flow.op = "login" /\ flow.pc = "accept"
    /\ Len(pending) = flow.accepted
    /\ WaitReturns(Some(Err("CallbackTimeoutError", "timeout wachtend op OAuth callback")),
                   None, <<>>)
    /\ UNCHANGED <<oauth_settings, oauth_tokens, env, app, tasks, inbox>>

(* Lines 588-608: read the request, find its target, parse it: the error   *)
(* that ends the wait, or the (status, body, code) to answer with.         *)
read_callback(stream, target, expected_state) ==
    IF stream.kind = "silent"
    THEN [err |-> Some(Err("CallbackTimeoutError", "timeout bij lezen callback request")),
          response |-> None]
    ELSE IF stream.kind = "empty"
    THEN [err |-> Some(Err("CallbackParseError", "lege callback request ontvangen")),
          response |-> None]
    ELSE IF stream.kind = "noline"
    THEN [err |-> Some(Err("CallbackParseError", "onleesbare callback request line")),
          response |-> None]
    ELSE IF stream.kind = "badurl"
    THEN [err |-> Some(Err("CallbackParseError", "ongeldige callback URL")), response |-> None]
    ELSE [err |-> None, response |-> Some(parse_callback_params(stream, target, expected_state))]

CallbackRead ==
    /\ flow.op = "login" /\ flow.pc = "read"
    /\ LET got == read_callback(Unwrap(flow.stream), Unwrap(flow.redirect_target),
                                Unwrap(flow.csrf_state))
           ev == Event("read", Unwrap(flow.stream))
       IN  IF got.err # None
           THEN WaitReturns(got.err, None, <<ev>>)
           ELSE /\ flow' = [flow EXCEPT !.pc = "respond", !.response = got.response]
                /\ trace' = Append(trace, ev)
                /\ UNCHANGED <<listener, pending>>
    /\ UNCHANGED <<oauth_settings, oauth_tokens, env, app, tasks, inbox>>

(* Mutant of respond_result: a failed match is returned without a response. *)
respond_result_unanswered_errors(written, response) ==
    IF response.code.err # None
    THEN [err |-> response.code.err, code |-> None, events |-> <<>>]
    ELSE IF ~written
    THEN [err |-> Some(Err("IoError", "write")), code |-> None, events |-> <<>>]
    ELSE [err |-> None, code |-> response.code.ok,
          events |-> <<Event("write_response", response.status)>>]

(* Lines 610-617: write and flush the response, then return `code`. *)
respond_result(written, response) ==
    IF ~written
    THEN [err |-> Some(Err("IoError", "write")), code |-> None, events |-> <<>>]
    ELSE [err |-> response.code.err, code |-> response.code.ok,
          events |-> <<Event("write_response", response.status)>>]

CallbackRespond(written) ==
    /\ flow.op = "login" /\ flow.pc = "respond"
    /\ LET r == respond_result(written, Unwrap(flow.response)) IN
       WaitReturns(r.err, r.code, r.events)
    /\ UNCHANGED <<oauth_settings, oauth_tokens, env, app, tasks, inbox>>

(* Mutant of login_after_failed_exchange: the flow goes on to the inbox. *)
login_after_failed_exchange_goes_on == "fetch"

(* Lines 215-217: `?` on the mapped error of exchange_token ends the call. *)
login_after_failed_exchange == "done"

(* Lines 215-221: exchange_token and persisting its refresh token. *)
LoginExchange(response) ==
    /\ flow.op = "login" /\ flow.pc = "exchange"
    /\ LET presented == Event("exchange_code", Unwrap(flow.code)) IN
       IF ~response.accepted
       THEN /\ oauth_tokens' = oauth_tokens
            /\ flow' = [flow EXCEPT !.pc = login_after_failed_exchange,
                          !.result = Failed(Err("TokenExchangeError", "token exchange mislukt"))]
            /\ trace' = Append(trace, presented)
       ELSE /\ oauth_tokens' = persist_refresh_token(oauth_tokens, flow.provider, Unwrap(response.token_set))
            /\ flow' = [flow EXCEPT !.pc = "fetch", !.token_set = response.token_set]
            /\ trace' = trace \o <<presented, Event("exchange_ok", Unwrap(response.token_set))>>
                              \o persist_events(Unwrap(response.token_set))
    /\ UNCHANGED <<oauth_settings, env, listener, pending, app, tasks, inbox>>

(* Mutant of inbox_token: the refresh token is handed over instead. *)
inbox_token_refresh(token_set) ==
    IF IsSome(token_set.refresh_token) THEN Unwrap(token_set.refresh_token)
    ELSE token_set.access_token

(* The access token handed to fetch_inbox (lines 183, 223 and 262). *)
inbox_token(token_set) == token_set.access_token

(* Mutant of store_after_inbox: a failed fetch drops the stored token. *)
store_after_inbox_cleared(tokens, provider, upstream_ok) ==
    IF upstream_ok THEN tokens ELSE clear_refresh_token(tokens, provider)

(* Lines 183, 223 and 262-263: the result of fetch_inbox is returned as it *)
(* is, the store is not touched again.                                     *)
store_after_inbox(tokens, provider, upstream_ok) == tokens

(* fetch_inbox, as the last step of both flows (lines 183, 223, 262-263). *)
FetchInbox(upstream_ok) ==
    /\ flow.op \in {"login", "restore"} /\ flow.pc = "fetch"
    /\ trace' = trace \o <<Event("fetch_inbox", inbox_token(Unwrap(flow.token_set)))>>
                       \o (IF upstream_ok THEN <<>> ELSE <<Event("inbox_failed", None)>>)
    /\ oauth_tokens' = store_after_inbox(oauth_tokens, flow.provider, upstream_ok)
    /\ flow' = [flow EXCEPT !.pc = "done",
                  !.result = IF ~upstream_ok
                             THEN Failed(Err("UpstreamApiError", "inbox"))
                             ELSE IF flow.op = "restore"
                             THEN Ok(Some([provider |-> flow.provider]))
                             ELSE Ok([provider |-> flow.provider])]
    /\ UNCHANGED <<oauth_settings, env, listener, pending, app, tasks, inbox>>

(* ---------------------------------------------------- try_restore_session *)
(* Mutant of restore_prepare: the credentials are resolved before the    *)
(* stored token is looked up.                                            *)
restore_prepare_credentials_first(settings, tokens, e, provider) ==
    LET stored == load_refresh_token(tokens, provider)
        creds == load_provider_credentials(settings, e, provider)
        none == [credentials |-> None, stored_refresh |-> stored]
    IN  IF creds = None
        THEN [err |-> Some(Err("MissingCredentials", label(provider))), no_session |-> FALSE] @@ none
        ELSE IF stored = None
        THEN [err |-> None, no_session |-> TRUE] @@ none
        ELSE [err |-> None, no_session |-> FALSE, credentials |-> creds, stored_refresh |-> stored]

(* Lines 227-245: everything before the refresh exchange. *)
restore_prepare(settings, tokens, e, provider) ==
    LET stored == load_refresh_token(tokens, provider)
        creds == load_provider_credentials(settings, e, provider)
        none == [credentials |-> None, stored_refresh |-> stored]
    IN  IF stored = None
        THEN [err |-> None, no_session |-> TRUE] @@ none
        ELSE IF creds = None
        THEN [err |-> Some(Err("MissingCredentials", label(provider))), no_session |-> FALSE] @@ none
        ELSE IF validate_credentials(provider, Unwrap(creds)) # None
        THEN [err |-> validate_credentials(provider, Unwrap(creds)), no_session |-> FALSE] @@ none
        ELSE IF redirect_url(e).err # None
        THEN [err |-> redirect_url(e).err, no_session |-> FALSE] @@ none
        ELSE [err |-> None, no_session |-> FALSE, credentials |-> creds, stored_refresh |-> stored]

RestoreStart(provider) ==
    /\ flow.pc = "idle"
    /\ LET prep == restore_prepare(oauth_settings, oauth_tokens, env, provider)
           started == [IdleFlow EXCEPT !.op = "restore", !.provider = provider,
                                       !.stored_refresh = prep.stored_refresh]
       IN  flow' = IF prep.no_session
                   THEN [started EXCEPT !.pc = "done", !.result = Ok(None)]
                   ELSE IF prep.err # None
                   THEN [started EXCEPT !.pc = "done", !.result = Failed(Unwrap(prep.err))]
                   ELSE [started EXCEPT !.pc = "refresh", !.credentials = prep.credentials]
    /\ UNCHANGED <<oauth_settings, oauth_tokens, env, listener, pending, trace, app, tasks, inbox>>

(* Lines 253-254: what try_restore_session returns when the refresh is rejected. *)
restore_rejected_result == Ok(None)

(* Lines 246-260: exchange_refresh_token and the match on its result. *)
RestoreRefresh(response) ==
    /\ flow.op = "restore" /\ flow.pc = "refresh"
    /\ LET presented == Event("exchange_refresh_token", Unwrap(flow.stored_refresh)) IN
       IF ~response.accepted
       THEN /\ oauth_tokens' = clear_refresh_token(oauth_tokens, flow.provider)
            /\ flow' = [flow EXCEPT !.pc = "done", !.result = restore_rejected_result]
            /\ trace' = trace \o <<presented, Event("refresh_rejected", None),
                                   Event("clear_refresh_token", None)>>
       ELSE /\ oauth_tokens' = persist_refresh_token(oauth_tokens, flow.provider, Unwrap(response.token_set))
            /\ flow' = [flow EXCEPT !.pc = "fetch", !.token_set = response.token_set]
            /\ trace' = trace \o <<presented, Event("refresh_ok", Unwrap(response.token_set))>>
                              \o persist_events(Unwrap(response.token_set))
    /\ UNCHANGED <<oauth_settings, env, listener, pending, app, tasks, inbox>>

(* The process ends and a new one starts, in an environment of its own;  *)
(* the store is what it left behind.                                      *)
ProcessStart(e) ==
    /\ flow.pc = "idle"
    /\ e # env
    /\ env' = e
    /\ UNCHANGED <<oauth_settings, oauth_tokens, flow, listener, pending, trace, app, tasks, inbox>>

(* The caller takes the result; the next invocation starts afresh. *)
Return ==
    /\ flow.pc = "done"
    /\ flow' = IdleFlow
    /\ trace' = <<>>
    /\ UNCHANGED <<oauth_settings, oauth_tokens, env, listener, pending, app, tasks, inbox>>

Next ==
    \/ \E p \in Provider, credentials \in CredentialInputs : SaveCredentials(p, credentials)
    \/ \E p \in Provider : LoginStart(p)
    \/ \E response \in TokenResponses : LoginRefresh(response)
    \/ \E csrf \in CsrfTokens, opened \in BOOLEAN : LoginAuthorize(csrf, opened)
    \/ \E free \in BOOLEAN : CallbackBind(free)
    \/ \E request \in Requests : ClientConnect(request)
    \/ CallbackAccept
    \/ CallbackAcceptTimeout
    \/ CallbackRead
    \/ \E written \in BOOLEAN : CallbackRespond(written)
    \/ \E response \in TokenResponses : LoginExchange(response)
    \/ \E upstream_ok \in BOOLEAN : FetchInbox(upstream_ok)
    \/ \E p \in Provider : RestoreStart(p)
    \/ \E response \in TokenResponses : RestoreRefresh(response)
    \/ \E e \in Environments : ProcessStart(e)
    \/ Return

Spec == Init /\ [][Next]_vars

(* ------------------------------------------ redirect target resolution *)
(* The flow up to its wait on the listener, under every shape of          *)
(* MAIL_OAUTH_REDIRECT_URI, with Google credentials in the environment.   *)
HOSTLESS_URL == [wellformed |-> TRUE, scheme |-> "mailto", host |-> None, port |-> None,
                 path |-> "callback"]
AllRedirectUris ==
    { Uri(scheme, host, port, path) :
        scheme \in {"http", "https", "ftp"},
        host \in {"127.0.0.1", "localhost", "example.com"},
        port \in {None, Some(53682)},
        path \in {"", "/", "/callback", "/other"} }
    \cup {HOSTLESS_URL, NOT_A_URL}

ResolverInit ==
    /\ oauth_settings = {}
    /\ oauth_tokens = {}
    /\ env \in { Environment(Some(VALID_GOOGLE_ID), None, uri) :
                    uri \in {None} \cup {Some(u) : u \in AllRedirectUris} }
    /\ flow = IdleFlow
    /\ listener = "unbound"
    /\ pending = <<>>
    /\ trace = <<>>
    /\ app = MailApp_default
    /\ tasks = NoTasks
    /\ inbox = IdleInbox

ResolverNext ==
    \/ \E p \in Provider : LoginStart(p)
    \/ \E csrf \in CsrfTokens, opened \in BOOLEAN : LoginAuthorize(csrf, opened)
    \/ \E free \in BOOLEAN : CallbackBind(free)
    \/ CallbackAcceptTimeout
    \/ Return

ResolverSpec == ResolverInit /\ [][ResolverNext]_vars

(* ------------------------------------------------------------ termination *)
(* One provider, its credentials in the environment, and the steps of     *)
(* login_and_fetch.  Every step of the flow is an await that completes:   *)
(* the store answers, the browser launcher returns, the token endpoint    *)
(* and the inbox API answer or fail, accept() and read() are wrapped in   *)
(* tokio timeouts (lines 581-591), and the response is a single short     *)
(* write.  Hence weak fairness of the flow's steps; nothing is assumed of *)
(* the callback client, which may never connect or never send.            *)
LiveInit ==
    /\ oauth_settings = {}
    /\ oauth_tokens = {}
    /\ env = Environment(Some(VALID_GOOGLE_ID), None, None)
    /\ flow = IdleFlow
    /\ listener = "unbound"
    /\ pending = <<>>
    /\ trace = <<>>
    /\ app = MailApp_default
    /\ tasks = NoTasks
    /\ inbox = IdleInbox

FlowStep ==
    \/ \E response \in TokenResponses : LoginRefresh(response)
    \/ \E csrf \in CsrfTokens, opened \in BOOLEAN : LoginAuthorize(csrf, opened)
    \/ \E free \in BOOLEAN : CallbackBind(free)
    \/ CallbackAccept
    \/ CallbackAcceptTimeout
    \/ CallbackRead
    \/ \E written \in BOOLEAN : CallbackRespond(written)
    \/ \E response \in TokenResponses : LoginExchange(response)
    \/ \E upstream_ok \in BOOLEAN : FetchInbox(upstream_ok)

LiveNext ==
    \/ LoginStart("google")
    \/ FlowStep
    \/ \E request \in Requests : ClientConnect(request)
    \/ Return

LiveSpec == LiveInit /\ [][LiveNext]_vars /\ WF_vars(FlowStep)

(* ------------------------------------------------------- every callback *)
(* login_and_fetch for one provider, under the default redirect target    *)
(* and under one with another path, the client sending any request: every *)
(* combination of path, code, state and error, or nothing parsable.       *)
AllRequests == UnparsedRequests \cup ParsedRequests

CallbackInit ==
    /\ oauth_settings = {}
    /\ oauth_tokens = {}
    /\ env \in { Environment(Some(VALID_GOOGLE_ID), None, uri) :
                    uri \in {None, Some(Uri("http", "localhost", None, "/other"))} }
    /\ flow = IdleFlow
    /\ listener = "unbound"
    /\ pending = <<>>
    /\ trace = <<>>
    /\ app = MailApp_default
    /\ tasks = NoTasks
    /\ inbox = IdleInbox

CallbackNext ==
    \/ LoginStart("google")
    \/ FlowStep
    \/ \E request \in AllRequests : ClientConnect(request)
    \/ Return

CallbackSpec == CallbackInit /\ [][CallbackNext]_vars

(* -------------------------------------------------------- the application *)
(* main.rs: the state of MailApp that decides which buttons can be        *)
(* pressed, and the number of futures handed to Task::perform that have   *)
(* not delivered their message yet.  The futures run on the executor, the *)
(* update handler on the UI thread: a task stays in flight from the       *)
(* handler that started it to the handler that receives its message.      *)
engine_vars == <<oauth_settings, oauth_tokens, env, flow, listener, pending, trace, inbox>>

(* What the text input of the client id can hold. *)
ClientIdTexts == { <<>>, <<WS>>, VALID_GOOGLE_ID }
(* What load_saved_settings can deliver for Google. *)
SavedGoogleSettings == { None, Some(Credentials(VALID_GOOGLE_ID, None)) }

(* view, line 213 *)
is_working(a) == a.state = "Working"

(* main, lines 19-30: the initial state and the two startup tasks. *)
AppInit ==
    /\ oauth_settings = {}
    /\ oauth_tokens = {}
    /\ env = Environment(None, None, None)
    /\ flow = IdleFlow
    /\ listener = "unbound"
    /\ pending = <<>>
    /\ trace = <<>>
    /\ app = MailApp_default
    /\ tasks = [NoTasks EXCEPT !.load = 1, !.restore = 1]
    /\ inbox = IdleInbox

(* update, Message::SettingsLoaded (lines 108-121) *)
SettingsLoaded(ok, google) ==
    /\ tasks.load > 0
    /\ tasks' = [tasks EXCEPT !.load = @ - 1]
    /\ app' = IF ~ok THEN [app EXCEPT !.state = "Error"]
               ELSE IF IsSome(google)
               THEN [app EXCEPT !.google_client_id = Unwrap(google).client_id]
               ELSE app
    /\ UNCHANGED engine_vars

(* update, Message::ToggleGoogleSetup (lines 122-125); view, line 231 *)
ToggleGoogleSetup ==
    /\ ~is_working(app)
    /\ app' = [app EXCEPT !.show_google_setup = ~@]
    /\ UNCHANGED <<tasks, engine_vars>>

(* update, Message::GoogleClientIdChanged (lines 141-144); view, lines 258-264 *)
GoogleClientIdChanged(value) ==
    /\ app.show_google_setup
    /\ value # app.google_client_id
    /\ app' = [app EXCEPT !.google_client_id = value]
    /\ UNCHANGED <<tasks, engine_vars>>

(* update, Message::SaveGoogleSettings (lines 149-159); view, lines 233-235, 258 *)
SaveGoogleSettings ==
    /\ ~is_working(app)
    /\ app.show_google_setup
    /\ Trim(app.google_client_id) # <<>>
    /\ tasks.save < MaxTasks
    /\ app' = [app EXCEPT !.state = "Working"]
    /\ tasks' = [tasks EXCEPT !.save = @ + 1]
    /\ UNCHANGED engine_vars

(* update, Message::SaveDone (lines 160-168) *)
SaveDone(ok) ==
    /\ tasks.save > 0
    /\ tasks' = [tasks EXCEPT !.save = @ - 1]
    /\ app' = [app EXCEPT !.state = IF ok THEN "Idle" ELSE "Error"]
    /\ UNCHANGED engine_vars

(* update, Message::LoginGoogle (lines 169-179); view, line 232 *)
LoginGoogle ==
    /\ ~is_working(app)
    /\ tasks.login < MaxTasks
    /\ app' = [app EXCEPT !.state = "Working"]
    /\ tasks' = [tasks EXCEPT !.login = @ + 1]
    /\ UNCHANGED engine_vars

(* MailApp::first_message_index (lines 376-382); indexes count from 0. *)
first_message_index(messages) == IF messages = <<>> THEN None ELSE Some(0)

(* Lines 181-186 and 194-199: a LoginResult is taken over. *)
show_result(a, messages) ==
    [a EXCEPT !.state = "Loaded", !.messages = messages, !.selected_folder = "Inbox",
              !.selected_message = first_message_index(messages)]

(* The messages of a LoginResult, told apart by their subjects. *)
ResultMessages ==
    { [i \in 1..n |-> MailMessage(<<Letter(i)>>, UNKNOWN, UNKNOWN, NO_BODY)] : n \in 0..MaxMessages }

(* update, Message::LoginDone (lines 180-192) *)
LoginDone(ok, messages) ==
    /\ tasks.login > 0
    /\ tasks' = [tasks EXCEPT !.login = @ - 1]
    /\ app' = IF ok THEN show_result(app, messages) ELSE [app EXCEPT !.state = "Error"]
    /\ UNCHANGED engine_vars

(* update, Message::RestoreSessionDone (lines 193-208): Ok(Some), Ok(None), Err *)
RestoreSessionDone(outcome, messages) ==
    /\ tasks.restore > 0
    /\ tasks' = [tasks EXCEPT !.restore = @ - 1]
    /\ app' = IF outcome = "session" THEN show_result(app, messages) ELSE app
    /\ UNCHANGED engine_vars

(* Lines 127-132: the selection that goes with a folder. *)
select_folder(a, folder) ==
    [a EXCEPT !.selected_folder = folder,
              !.selected_message = IF folder = "Inbox" THEN first_message_index(a.messages)
                                   ELSE None]

(* Mutant of select_message: the index is taken as it comes. *)
select_message_unchecked(a, index) == [a EXCEPT !.selected_message = Some(index)]

(* Lines 136-138: an index outside the list is ignored. *)
select_message(a, index) ==
    IF index < Len(a.messages) THEN [a EXCEPT !.selected_message = Some(index)] ELSE a

(* update, Message::SelectFolder (lines 126-134).  The message handled is  *)
(* kept in trace.  A message is built by the view of an earlier state and  *)
(* may be handled in a later one, so the handlers are not tied to what the *)
(* current view offers.                                                    *)
SelectFolder(folder) ==
    /\ app' = select_folder(app, folder)
    /\ trace' = <<Event("SelectFolder", folder)>>
    /\ UNCHANGED <<tasks, oauth_settings, oauth_tokens, env, flow, listener, pending, inbox>>

(* update, Message::SelectMessage (lines 135-140) *)
SelectMessage(index) ==
    /\ app' = select_message(app, index)
    /\ trace' = <<Event("SelectMessage", index)>>
    /\ UNCHANGED <<tasks, oauth_settings, oauth_tokens, env, flow, listener, pending, inbox>>

AppNext ==
    \/ \E ok \in BOOLEAN, google \in SavedGoogleSettings : SettingsLoaded(ok, google)
    \/ ToggleGoogleSetup
    \/ \E value \in ClientIdTexts : GoogleClientIdChanged(value)
    \/ SaveGoogleSettings
    \/ \E ok \in BOOLEAN : SaveDone(ok)
    \/ LoginGoogle
    \/ \E ok \in BOOLEAN, messages \in ResultMessages : LoginDone(ok, messages)
    \/ \E outcome \in {"session", "none", "error"}, messages \in ResultMessages :
            RestoreSessionDone(outcome, messages)
    \/ \E folder \in MailFolder : SelectFolder(folder)
    \/ \E index \in 0..MaxMessages : SelectMessage(index)

AppSpec == AppInit /\ [][AppNext]_vars

(* ---------------------------------------------------------- inbox adapters *)
(* fetch_google_inbox and fetch_outlook_inbox, one step per HTTP request.  *)
(* A failed request, a non-success status and a body that does not         *)
(* deserialize all end the fetch with an error (ok = FALSE).  The provider *)
(* answers as it likes: nothing makes it honour maxResults or $top.        *)
(* ---- Google *)
GoogleHeader(name, value) == [name |-> name, value |-> value]
GoogleMessageResponse(payload, snippet) == [payload |-> payload, snippet |-> snippet]

(* The loop of extract_google_headers: a later header of a name wins. *)
RECURSIVE fold_google_headers(_, _)
fold_google_headers(headers, acc) ==
    IF headers = <<>> THEN acc
    ELSE LET header == Head(headers)
             next == IF header.name = "Subject" THEN [acc EXCEPT !.subject = header.value]
                     ELSE IF header.name = "From" THEN [acc EXCEPT !.from = header.value]
                     ELSE IF header.name = "Date" THEN [acc EXCEPT !.date = header.value]
                     ELSE acc
         IN  fold_google_headers(Tail(headers), next)

extract_google_headers(payload) ==
    LET defaults == [subject |-> NO_SUBJECT, from |-> UNKNOWN, date |-> UNKNOWN] IN
    IF payload = None THEN defaults
    ELSE IF Unwrap(payload).headers = None THEN defaults
    ELSE fold_google_headers(Unwrap(Unwrap(payload).headers), defaults)

(* snippet / bodyPreview: .filter(|value| !value.trim().is_empty()).unwrap_or_else(..) *)
body_or_placeholder(preview) ==
    IF IsSome(preview) /\ Trim(Unwrap(preview)) # <<>> THEN Unwrap(preview) ELSE NO_BODY

(* Lines 748-757: the MailMessage of one detail response. *)
google_message(detail) ==
    LET h == extract_google_headers(detail.payload) IN
    MailMessage(h.subject, h.from, h.date, body_or_placeholder(detail.snippet))

google_account(email) == IF IsSome(email) THEN Unwrap(email) ELSE UNKNOWN_ACCOUNT

(* ---- Outlook *)
GraphMessage(subject, from, received_date_time, body_preview) ==
    [subject |-> subject, from |-> from, received_date_time |-> received_date_time,
     body_preview |-> body_preview]

(* entry.from.and_then(|f| f.email_address).and_then(|a| a.address) *)
graph_from_address(from) ==
    IF from = None THEN None
    ELSE IF Unwrap(from).email_address = None THEN None
    ELSE Unwrap(Unwrap(from).email_address).address

(* Lines 873-889: the MailMessage of one entry of the list. *)
outlook_message(entry) ==
    MailMessage(IF IsSome(entry.subject) THEN Unwrap(entry.subject) ELSE NO_SUBJECT,
                IF IsSome(graph_from_address(entry.from))
                THEN Unwrap(graph_from_address(entry.from)) ELSE UNKNOWN,
                IF IsSome(entry.received_date_time) THEN Unwrap(entry.received_date_time)
                ELSE UNKNOWN,
                body_or_placeholder(entry.body_preview))

(* Mutant of outlook_account: userPrincipalName is not consulted. *)
outlook_account_mail_only(me) ==
    IF IsSome(me.mail) THEN Unwrap(me.mail) ELSE UNKNOWN_ACCOUNT

(* Lines 894-897: me.mail.or(me.user_principal_name).unwrap_or_else(..) *)
outlook_account(me) ==
    IF IsSome(me.mail) THEN Unwrap(me.mail)
    ELSE IF IsSome(me.user_principal_name) THEN Unwrap(me.user_principal_name)
    ELSE UNKNOWN_ACCOUNT

(* ---- what the providers may answer *)
OptTexts == { None, Some(<<>>), Some(<<"v">>) }
Previews == { None, Some(<<>>), Some(<<WS>>), Some(<<"b">>) }
HeaderChoices == { GoogleHeader("Subject", <<"s">>), GoogleHeader("From", <<"f">>),
                   GoogleHeader("Date", <<"d">>), GoogleHeader("Subject", <<"t">>),
                   GoogleHeader("X-Mailer", <<"x">>) }
HeaderLists ==
    { <<>> } \cup { <<h>> : h \in HeaderChoices }
    \cup { <<h, k>> : h \in HeaderChoices, k \in HeaderChoices }
    \cup { <<GoogleHeader("Subject", <<"s">>), GoogleHeader("From", <<"f">>),
             GoogleHeader("Date", <<"d">>)>> }
GooglePayloads ==
    { None, Some([headers |-> None]) } \cup { Some([headers |-> Some(hs)]) : hs \in HeaderLists }
GoogleDetails ==
    { GoogleMessageResponse(payload, snippet) : payload \in GooglePayloads, snippet \in Previews }

GraphFroms ==
    { None, Some([email_address |-> None]), Some([email_address |-> Some([address |-> None])]),
      Some([email_address |-> Some([address |-> Some(<<"f">>)])]) }
GraphMessages ==
    { GraphMessage(subject, from, received, preview) :
        subject \in OptTexts, from \in GraphFroms, received \in OptTexts, preview \in Previews }
GraphMes == { [mail |-> mail, user_principal_name |-> upn] :
                mail \in { None, Some(<<"m">>) }, upn \in { None, Some(<<"u">>) } }

(* A mailbox of n messages that differ from one another, as the provider   *)
(* lists them, and the mailboxes of one message of every shape.            *)
GoogleListed(n) ==
    [i \in 1..n |-> GoogleMessageResponse(
        Some([headers |-> Some(<<GoogleHeader("Subject", <<Letter(i)>>)>>)]), Some(<<"b">>))]
GoogleMailboxes ==
    { GoogleListed(n) : n \in 0..MaxListed } \cup { <<detail>> : detail \in GoogleDetails }
GraphListed(n) ==
    [i \in 1..n |-> GraphMessage(Some(<<Letter(i)>>), None, None, Some(<<"b">>))]
GraphMailboxes ==
    { GraphListed(n) : n \in 0..MaxListed } \cup { <<entry>> : entry \in GraphMessages }

(* ---- the steps *)
InboxFailed(endpoint) ==
    [inbox EXCEPT !.pc = "done", !.result = Some(Failed(Err("UpstreamApiError", endpoint)))]

(* fetch_inbox, lines 705-712 *)
InboxStart(provider) ==
    /\ inbox.pc \in { "idle", "returned" }
    /\ inbox' = [IdleInbox EXCEPT !.provider = Some(provider),
                                  !.pc = IF provider = "google" THEN "userinfo" ELSE "me"]
    /\ UNCHANGED <<oauth_settings, oauth_tokens, env, flow, listener, pending, trace, app, tasks>>

(* Lines 715-720: Google userinfo. *)
GoogleUserinfo(ok, email) ==
    /\ inbox.pc = "userinfo"
    /\ inbox' = IF ok THEN [inbox EXCEPT !.pc = "list", !.me = Some(email)]
                ELSE InboxFailed("Google userinfo")
    /\ UNCHANGED <<oauth_settings, oauth_tokens, env, flow, listener, pending, trace, app, tasks>>

(* Lines 722-731: the list request with maxResults = MESSAGE_LIMIT; `listed` *)
(* is list.messages.unwrap_or_default(), each ref standing for its detail.  *)
GoogleList(ok, messages) ==
    /\ inbox.pc = "list"
    /\ inbox' = IF ok
                THEN LET refs == IF messages = None THEN <<>> ELSE Unwrap(messages) IN
                     [inbox EXCEPT !.pc = "detail", !.listed = refs, !.refs = refs]
                ELSE InboxFailed("Gmail messages list")
    /\ UNCHANGED <<oauth_settings, oauth_tokens, env, flow, listener, pending, trace, app, tasks>>

(* Lines 731-758: one turn of the loop, the detail request of the next ref. *)
GoogleDetail(ok) ==
    /\ inbox.pc = "detail"
    /\ inbox.refs # <<>>
    /\ inbox' = IF ok
                THEN [inbox EXCEPT !.refs = Tail(@), !.detail_requests = @ + 1,
                                   !.messages = Append(@, google_message(Head(inbox.refs)))]
                ELSE [InboxFailed("Gmail message detail") EXCEPT !.detail_requests = @ + 1]
    /\ UNCHANGED <<oauth_settings, oauth_tokens, env, flow, listener, pending, trace, app, tasks>>

(* Lines 760-764: the loop is over. *)
GoogleResult ==
    /\ inbox.pc = "detail"
    /\ inbox.refs = <<>>
    /\ inbox' = [inbox EXCEPT !.pc = "done",
                   !.result = Some(Ok(LoginResult("google", google_account(Unwrap(inbox.me)),
                                                  inbox.messages)))]
    /\ UNCHANGED <<oauth_settings, oauth_tokens, env, flow, listener, pending, trace, app, tasks>>

(* Lines 844-851: Graph /me. *)
OutlookMe(ok, me) ==
    /\ inbox.pc = "me"
    /\ inbox' = IF ok THEN [inbox EXCEPT !.pc = "messages", !.me = Some(me)]
                ELSE InboxFailed("Graph me")
    /\ UNCHANGED <<oauth_settings, oauth_tokens, env, flow, listener, pending, trace, app, tasks>>

(* Lines 853-899: the one list request with $top = MESSAGE_LIMIT, and the result. *)
OutlookMessages(ok, value) ==
    /\ inbox.pc = "messages"
    /\ inbox' = IF ok
                THEN [inbox EXCEPT !.pc = "done", !.listed = value,
                        !.messages = [i \in 1..Len(value) |-> outlook_message(value[i])],
                        !.result = Some(Ok(LoginResult("outlook", outlook_account(Unwrap(inbox.me)),
                                        [i \in 1..Len(value) |-> outlook_message(value[i])])))]
                ELSE InboxFailed("Graph messages")
    /\ UNCHANGED <<oauth_settings, oauth_tokens, env, flow, listener, pending, trace, app, tasks>>

(* fetch_inbox returns: the result is the caller's. *)
InboxReturn ==
    /\ inbox.pc = "done"
    /\ inbox' = [inbox EXCEPT !.pc = "returned"]
    /\ UNCHANGED <<oauth_settings, oauth_tokens, env, flow, listener, pending, trace, app, tasks>>

InboxInit ==
    /\ oauth_settings = {}
    /\ oauth_tokens = {}
    /\ env = Environment(None, None, None)
    /\ flow = IdleFlow
    /\ listener = "unbound"
    /\ pending = <<>>
    /\ trace = <<>>
    /\ app = MailApp_default
    /\ tasks = NoTasks
    /\ inbox = IdleInbox

InboxNext ==
    \/ \E provider \in Provider : InboxStart(provider)
    \/ \E ok \in BOOLEAN, email \in { None, Some(<<"m">>) } : GoogleUserinfo(ok, email)
    \/ \E ok \in BOOLEAN, messages \in {None} \cup { Some(m) : m \in GoogleMailboxes } :
            GoogleList(ok, messages)
    \/ \E ok \in BOOLEAN : GoogleDetail(ok)
    \/ GoogleResult
    \/ \E ok \in BOOLEAN, me \in GraphMes : OutlookMe(ok, me)
    \/ \E ok \in BOOLEAN, value \in GraphMailboxes : OutlookMessages(ok, value)
    \/ InboxReturn

InboxSpec == InboxInit /\ [][InboxNext]_vars

(* ======================================================== properties ==== *)
Has(ev) == \E i \in 1..Len(trace) : trace[i].ev = ev
Count(ev) == Cardinality({i \in 1..Len(trace) : trace[i].ev = ev})
IndexOf(ev) == CHOOSE i \in 1..Len(trace) : trace[i].ev = ev /\ \A j \in 1..(i - 1) : trace[j].ev # ev
ArgOf(ev) == trace[IndexOf(ev)].arg
StoredRows(p) == {r \in oauth_tokens : r.provider = p}
InFlow(op) == flow.op = op
FailedWith(kind) == flow.pc = "done" /\ ~flow.result.ok /\ flow.result.value.kind = kind

(* C1: when try_restore_session presented a stored refresh token and the   *)
(* token endpoint rejected it, the call returns Ok(None) and the store     *)
(* holds no refresh token row for that provider.                           *)
C1_RestoreRejectedClears ==
    (InFlow("restore") /\ Has("refresh_rejected")) =>
        /\ flow.pc = "done"
        /\ flow.result.ok
        /\ flow.result.value = None
        /\ StoredRows(flow.provider) = {}

C1_Witness ==
    /\ InFlow("restore") /\ flow.provider = "outlook"
    /\ flow.pc = "done" /\ Has("refresh_rejected")
    /\ flow.result.ok

(* C2: after a successful refresh exchange, in login_and_fetch and in      *)
(* try_restore_session, the store holds exactly the new refresh token if   *)
(* the response carried one, and else still the original one.              *)
C2_RefreshRotation ==
    ((InFlow("login") \/ InFlow("restore")) /\ Has("refresh_ok")) =>
        StoredRows(flow.provider) =
            {[provider |-> flow.provider,
              refresh_token |-> IF IsSome(ArgOf("refresh_ok").refresh_token)
                                THEN Unwrap(ArgOf("refresh_ok").refresh_token)
                                ELSE Unwrap(flow.stored_refresh)]}

C2_Witness ==
    /\ InFlow("login") /\ flow.pc = "done" /\ Has("refresh_ok")
    /\ ArgOf("refresh_ok").refresh_token = None
    /\ StoredRows(flow.provider) # {}

(* C3: when login_and_fetch has its stored refresh token rejected, the     *)
(* token is cleared from the store before the browser is opened and before *)
(* the listener is bound, and the flow goes on to the interactive path     *)
(* instead of ending there.                                                *)
C3_RejectedRefreshFallsBack ==
    (InFlow("login") /\ Has("refresh_rejected")) =>
        /\ Has("clear_refresh_token")
        /\ Has("browser_open") => IndexOf("clear_refresh_token") < IndexOf("browser_open")
        /\ Has("bind") => IndexOf("clear_refresh_token") < IndexOf("bind")
        /\ ~Has("exchange_ok") => StoredRows(flow.provider) = {}
        /\ flow.pc # "refresh"
        /\ flow.pc = "done" => Has("browser_open")

C3_Witness ==
    /\ InFlow("login") /\ Has("refresh_rejected")
    /\ flow.pc = "accept" /\ listener = "bound"

(* C4: when login_and_fetch has its stored refresh token accepted, the     *)
(* invocation goes straight to the inbox fetch and ends with it: no        *)
(* browser launch, no listener bind, no authorization-code exchange.       *)
C4_RefreshSkipsInteractive ==
    (InFlow("login") /\ Has("refresh_ok")) =>
        /\ ~Has("browser_open") /\ ~Has("bind") /\ ~Has("accept") /\ ~Has("exchange_code")
        /\ listener = "unbound"
        /\ flow.pc \in {"fetch", "done"}
        /\ flow.pc = "done" => trace[Len(trace)].ev \in {"fetch_inbox", "inbox_failed"}

C4_Witness ==
    /\ InFlow("login") /\ Has("refresh_ok") /\ flow.pc = "done" /\ flow.result.ok

AcceptedRequest == ArgOf("accept")
StateMismatch(request) ==
    request.kind = "ok" /\ request.state # Some(Unwrap(flow.csrf_state))

(* C5 as stated: a callback whose state differs from the issued CSRF token, *)
(* or lacks one, makes the flow fail with CsrfMismatch, its code is never   *)
(* exchanged and no token is persisted.  Stated of the callbacks that were  *)
(* answered, so that what refutes it is the order of the matching rules.    *)
C5_AsStated ==
    (InFlow("login") /\ flow.pc = "done" /\ Has("write_response")
       /\ StateMismatch(AcceptedRequest)) =>
        /\ FailedWith("CsrfMismatch")
        /\ ~Has("exchange_code")
        /\ load_refresh_token(oauth_tokens, flow.provider) = None

(* C5 as amended: a callback whose state differs from the issued CSRF      *)
(* token, or lacks one, makes the flow fail, its code is never exchanged   *)
(* and no token is persisted.  The failure is CallbackPathMismatch when    *)
(* the path does not match, AuthorizationDenied when an error parameter is *)
(* present and CsrfMismatch otherwise; when the 400 response cannot be     *)
(* written the failure is the write error instead.                         *)
C5_StateMismatchNeverExchanges ==
    (InFlow("login") /\ Has("accept") /\ StateMismatch(AcceptedRequest)) =>
        /\ flow.pc \in {"read", "respond", "done"}
        /\ ~Has("exchange_code") /\ ~Has("save_refresh_token") /\ ~Has("fetch_inbox")
        /\ load_refresh_token(oauth_tokens, flow.provider) = None
        /\ flow.pc = "done" =>
              /\ ~flow.result.ok
              /\ flow.result.value.kind =
                    IF ~Has("write_response") THEN "IoError"
                    ELSE IF AcceptedRequest.path # Unwrap(flow.redirect_target).path
                    THEN "CallbackPathMismatch"
                    ELSE IF IsSome(AcceptedRequest.error) THEN "AuthorizationDenied"
                    ELSE "CsrfMismatch"

C5_Witness ==
    /\ InFlow("login") /\ Has("accept") /\ StateMismatch(AcceptedRequest)
    /\ IsSome(AcceptedRequest.code) /\ IsSome(AcceptedRequest.state)
    /\ FailedWith("CsrfMismatch")

(* C6: a callback on the expected path that carries an error parameter     *)
(* makes login_and_fetch fail with AuthorizationDenied carrying that text, *)
(* with the listener closed, no token exchange and no inbox fetch.         *)
C6_DeniedCallback ==
    (InFlow("login") /\ flow.pc = "done" /\ Has("accept")
       /\ AcceptedRequest.kind = "ok"
       /\ AcceptedRequest.path = Unwrap(flow.redirect_target).path
       /\ IsSome(AcceptedRequest.error)) =>
        /\ FailedWith("AuthorizationDenied")
        /\ flow.result.value.detail = Unwrap(AcceptedRequest.error)
        /\ listener = "unbound"
        /\ ~Has("exchange_code") /\ ~Has("fetch_inbox")

(* C7: when no credentials can be resolved for the provider (no row in the *)
(* store and, for Google, no usable MAIL_GOOGLE_CLIENT_ID either),         *)
(* login_and_fetch, and try_restore_session holding a stored refresh       *)
(* token, fail with MissingCredentials naming the provider, before any     *)
(* token request, browser launch or listener bind; a row in the store      *)
(* takes precedence over the environment.                                  *)
NoCredentials(p) ==
    /\ ~\E r \in oauth_settings : r.provider = p
    /\ p = "google" =>
          \/ env.MAIL_GOOGLE_CLIENT_ID = None
          \/ Trim(Unwrap(env.MAIL_GOOGLE_CLIENT_ID)) = <<>>

C7_MissingCredentials ==
    /\ ((InFlow("login") \/ (InFlow("restore") /\ IsSome(flow.stored_refresh)))
          /\ NoCredentials(flow.provider)) =>
            /\ FailedWith("MissingCredentials")
            /\ flow.result.value.detail = label(flow.provider)
            /\ trace = <<>>
            /\ listener = "unbound"
    /\ ((InFlow("login") \/ InFlow("restore")) /\ IsSome(flow.credentials)) =>
            \A r \in oauth_settings :
                r.provider = flow.provider => Unwrap(flow.credentials).client_id = r.client_id

C7_Witness ==
    /\ InFlow("restore") /\ IsSome(flow.stored_refresh)
    /\ NoCredentials(flow.provider)
    /\ FailedWith("MissingCredentials")

(* C8: on the interactive path with no refresh token stored, when the      *)
(* callback delivers a code with the issued state and the code exchange    *)
(* returns access token T and refresh token R, the store holds R for the   *)
(* provider before the inbox adapter is invoked, and the adapter is        *)
(* invoked with exactly T.                                                 *)
C8_InteractiveHappyPath ==
    (InFlow("login") /\ flow.stored_refresh = None /\ Has("exchange_ok")
       /\ IsSome(ArgOf("exchange_ok").refresh_token)) =>
        /\ flow.pc \in {"fetch", "done"}
        /\ AcceptedRequest.state = flow.csrf_state
        /\ ArgOf("exchange_code") = Unwrap(AcceptedRequest.code)
        /\ StoredRows(flow.provider) =
              {[provider |-> flow.provider,
                refresh_token |-> Unwrap(ArgOf("exchange_ok").refresh_token)]}
        /\ flow.pc = "done" <=> Has("fetch_inbox")
        /\ Has("fetch_inbox") =>
              /\ ArgOf("fetch_inbox") = ArgOf("exchange_ok").access_token
              /\ IndexOf("save_refresh_token") < IndexOf("fetch_inbox")

C8_Witness ==
    /\ InFlow("login") /\ flow.stored_refresh = None /\ Has("exchange_ok")
    /\ ArgOf("exchange_ok") = TokenSet(<<"T">>, Some(<<"R">>))
    /\ flow.pc = "done" /\ flow.result.ok

(* C9: the callback listener is released on every exit path of the wait:   *)
(* the port is bound only while wait_for_oauth_code is accepting, reading  *)
(* or answering, and whenever the wait has returned, with the code or with *)
(* any error, it is unbound and nothing stays queued on it.                *)
C9_ListenerReleased ==
    /\ listener = "bound" => (InFlow("login") /\ flow.pc \in {"accept", "read", "respond"})
    /\ flow.pc \notin {"accept", "read", "respond"} => (listener = "unbound" /\ pending = <<>>)
    /\ (Has("bind") /\ flow.pc \in {"exchange", "fetch", "done"}) =>
          (Count("close_listener") = 1 /\ IndexOf("bind") < IndexOf("close_listener"))

C9_Witness ==
    /\ InFlow("login") /\ Has("bind") /\ FailedWith("IoError")
    /\ listener = "unbound"

(* C10: the listener accepts exactly one connection per flow, the first    *)
(* that arrived; only that one is read and answered, and the code handed   *)
(* to the token exchange is the one it carried.                            *)
C10_SingleConnection ==
    InFlow("login") =>
        /\ flow.accepted <= 1
        /\ Count("accept") = flow.accepted
        /\ Count("read") <= 1 /\ Count("write_response") <= 1
        /\ (Has("accept") /\ listener = "bound") => AcceptedRequest = pending[1]
        /\ Has("read") => ArgOf("read") = AcceptedRequest
        /\ IsSome(flow.stream) => Unwrap(flow.stream) = AcceptedRequest
        /\ Has("exchange_code") => ArgOf("exchange_code") = Unwrap(AcceptedRequest.code)

C10_Witness ==
    /\ InFlow("login") /\ flow.pc = "respond"
    /\ Len(pending) = 2 /\ pending[2] # pending[1]
    /\ flow.accepted = 1

(* C11: try_restore_session is non-interactive.  When no usable refresh    *)
(* token is stored for the provider it returns Ok(None), whether or not    *)
(* credentials can be resolved, having made no request at all; and in      *)
(* every outcome it opens no browser and binds no listener.                *)
C11_RestoreNonInteractive ==
    InFlow("restore") =>
        /\ ~Has("browser_open") /\ ~Has("bind") /\ ~Has("accept") /\ ~Has("exchange_code")
        /\ listener = "unbound"
        /\ flow.stored_refresh = None =>
              /\ flow.pc = "done"
              /\ flow.result.ok
              /\ flow.result.value = None
              /\ trace = <<>>

C11_Witness ==
    /\ InFlow("restore") /\ flow.pc = "done"
    /\ flow.stored_refresh = None
    /\ NoCredentials(flow.provider)
    /\ flow.result.ok

SavedInput == Unwrap(flow.credentials)
SettingsRows(p) == {r \in oauth_settings : r.provider = p}
SaveReturned == InFlow("save") /\ flow.pc = "done"

(* C12 as stated: after save_credentials with a client_id that is not      *)
(* empty once trimmed, load_settings returns exactly the client_id and the *)
(* secret that were passed, in the one entry of that provider.             *)
C12_AsStated ==
    (SaveReturned /\ Trim(SavedInput.client_id) # <<>>) =>
        /\ load_oauth_settings(oauth_settings)[flow.provider] = Some(SavedInput)
        /\ Cardinality(SettingsRows(flow.provider)) = 1

(* C12 as amended: after save_credentials with a client_id that is not     *)
(* empty once trimmed, load_settings returns for that provider the trimmed *)
(* client_id and the trimmed secret, absent when the secret was absent or  *)
(* blank; values already in that form come back exactly, and the provider  *)
(* has one entry, holding the value saved last.                            *)
C12_RoundTripNormalized ==
    (SaveReturned /\ Trim(SavedInput.client_id) # <<>>) =>
        /\ flow.result.ok
        /\ load_oauth_settings(oauth_settings)[flow.provider] =
              Some([client_id |-> Trim(SavedInput.client_id),
                    client_secret |->
                        IF SavedInput.client_secret = None THEN None
                        ELSE IF Trim(Unwrap(SavedInput.client_secret)) = <<>> THEN None
                        ELSE Some(Trim(Unwrap(SavedInput.client_secret)))])
        /\ Cardinality(SettingsRows(flow.provider)) = 1

C12_Witness ==
    /\ SaveReturned /\ flow.result.ok
    /\ SavedInput.client_id # Trim(SavedInput.client_id)
    /\ IsSome(SavedInput.client_secret)
    /\ \A p \in Provider : SettingsRows(p) # {}

(* C13: blank client secrets and refresh tokens are normalized to absent   *)
(* on write and on read: a blank secret that was saved reloads as absent,  *)
(* a blank refresh token in the store reloads as absent, and saving a      *)
(* blank refresh token never replaces a usable one stored before: the      *)
(* token the flow started with is still what the store gives back.         *)
C13_BlankNormalizedToAbsent ==
    /\ (SaveReturned /\ flow.result.ok /\ IsSome(SavedInput.client_secret)
           /\ Trim(Unwrap(SavedInput.client_secret)) = <<>>) =>
            Unwrap(load_oauth_settings(oauth_settings)[flow.provider]).client_secret = None
    /\ \A r \in oauth_tokens :
            Trim(r.refresh_token) = <<>> => load_refresh_token(oauth_tokens, r.provider) = None
    /\ ((InFlow("login") \/ InFlow("restore")) /\ IsSome(flow.stored_refresh)
           /\ ~Has("clear_refresh_token") /\ Has("save_refresh_token")
           /\ Trim(ArgOf("save_refresh_token")) = <<>>) =>
            load_refresh_token(oauth_tokens, flow.provider) = flow.stored_refresh

(* C14: save_credentials with a client_id that is empty once trimmed fails *)
(* with ValidationError, and the step leaves both tables of the store, the *)
(* credentials and the refresh tokens of every provider, as they were.     *)
C14_BlankClientIdRejected ==
    [][(flow.pc = "idle" /\ flow'.op = "save"
          /\ Trim(Unwrap(flow'.credentials).client_id) = <<>>) =>
            /\ flow'.pc = "done"
            /\ ~flow'.result.ok
            /\ flow'.result.value.kind = "ValidationError"
            /\ oauth_settings' = oauth_settings
            /\ oauth_tokens' = oauth_tokens]_vars

C14_Witness ==
    /\ SaveReturned /\ FailedWith("ValidationError")
    /\ Trim(SavedInput.client_id) = <<>>
    /\ SettingsRows(flow.provider) # {}
    /\ oauth_tokens # {}

(* C15: whatever save_credentials, login_and_fetch and try_restore_session *)
(* calls have run, the store holds at most one refresh token row and at    *)
(* most one credentials row for each provider.                             *)
C15_OneRowPerProvider ==
    \A p \in Provider :
        /\ Cardinality(StoredRows(p)) <= 1
        /\ Cardinality(SettingsRows(p)) <= 1

C15_Witness ==
    /\ InFlow("restore") /\ IsSome(flow.stored_refresh)
    /\ Has("save_refresh_token")
    /\ ArgOf("save_refresh_token") # Unwrap(flow.stored_refresh)
    /\ Cardinality(StoredRows(flow.provider)) = 1
    /\ Cardinality(SettingsRows(flow.provider)) = 1

ConfiguredUri ==
    IF env.MAIL_OAUTH_REDIRECT_URI = None THEN DEFAULT_REDIRECT_URL
    ELSE Unwrap(env.MAIL_OAUTH_REDIRECT_URI)
Loopback == {"127.0.0.1", "localhost"}
Resolvable(u) ==
    /\ u.wellformed
    /\ u.scheme = "http"
    /\ IsSome(u.host) /\ Unwrap(u.host) \in Loopback
    /\ IsSome(u.port) \/ u.scheme \in {"http", "https", "ws", "wss", "ftp"}
    /\ u.path \notin {"", "/"}

(* C16: the flow holds a RedirectTarget only when the configured URI has   *)
(* scheme http, host 127.0.0.1 or localhost, a port that can be determined *)
(* and a path that is neither empty nor "/", and then the target is that   *)
(* host, port and path; for any other URI login_and_fetch fails with       *)
(* ConfigurationError having opened no browser and bound no socket; and    *)
(* the listener is only ever bound to a loopback host.                     *)
C16_RedirectTargetLoopbackOnly ==
    (InFlow("login") /\ flow.provider = "google") =>
        /\ IsSome(flow.redirect_target) =>
              /\ Resolvable(ConfiguredUri)
              /\ Unwrap(flow.redirect_target) =
                    [host |-> Unwrap(ConfiguredUri.host),
                     port |-> IF IsSome(ConfiguredUri.port) THEN Unwrap(ConfiguredUri.port) ELSE 80,
                     path |-> ConfiguredUri.path]
        /\ Resolvable(ConfiguredUri) =>
              (IsSome(flow.redirect_target) /\ ~FailedWith("ConfigurationError"))
        /\ (ConfiguredUri.wellformed /\ ~Resolvable(ConfiguredUri)) =>
              /\ FailedWith("ConfigurationError")
              /\ trace = <<>>
              /\ listener = "unbound"
        /\ ~ConfiguredUri.wellformed => (flow.pc = "done" /\ trace = <<>> /\ listener = "unbound")
        /\ Has("bind") => Unwrap(ArgOf("bind")).host \in Loopback
        /\ listener = "bound" => Unwrap(flow.redirect_target).host \in Loopback

C16_Witness ==
    /\ InFlow("login") /\ flow.provider = "google"
    /\ ConfiguredUri = Uri("https", "127.0.0.1", Some(53682), "/callback")
    /\ FailedWith("ConfigurationError")

ResolvedCredentials == load_provider_credentials(oauth_settings, env, flow.provider)
ClientIdRejected ==
    /\ FailedWith("ValidationError")
    /\ flow.result.value.detail \in {"Client ID is leeg.", "Google Client ID lijkt ongeldig."}

(* C17: when the client_id resolved for Google does not end with           *)
(* .apps.googleusercontent.com, login_and_fetch, and try_restore_session   *)
(* holding a stored refresh token, fail with ValidationError before any    *)
(* token request, browser launch or listener bind, and the stored refresh  *)
(* token stays as it was; for Outlook no client_id is refused.             *)
C17_GoogleClientIdValidated ==
    /\ ((InFlow("login") \/ (InFlow("restore") /\ IsSome(flow.stored_refresh)))
           /\ flow.provider = "google" /\ IsSome(ResolvedCredentials)
           /\ ~EndsWith(Trim(Unwrap(ResolvedCredentials).client_id), GOOGLE_SUFFIX)) =>
            /\ ClientIdRejected
            /\ trace = <<>>
            /\ listener = "unbound"
            /\ InFlow("restore") =>
                  load_refresh_token(oauth_tokens, flow.provider) = flow.stored_refresh
    /\ ((InFlow("login") \/ InFlow("restore")) /\ flow.provider = "outlook"
           /\ IsSome(ResolvedCredentials)) => ~ClientIdRejected

C17_Witness ==
    /\ InFlow("restore") /\ IsSome(flow.stored_refresh)
    /\ flow.provider = "google" /\ IsSome(ResolvedCredentials)
    /\ Unwrap(ResolvedCredentials).client_id = <<"x">>
    /\ ClientIdRejected
    /\ \E r \in oauth_settings : r.provider = "outlook" /\ r.client_id = <<"x">>

(* C18: at any moment at most one engine flow for Google is in flight in   *)
(* the application: the startup session restore and a login the user       *)
(* started never run at the same time, and neither do two logins.          *)
C18_SingleFlowInFlight ==
    /\ tasks.login + tasks.restore <= 1
    /\ tasks.login <= 1

(* C19: one login_and_fetch invocation makes at most one refresh exchange, *)
(* one browser launch, one listener bind and one code exchange; and once   *)
(* the browser launch, the bind, the wait for the callback or the code     *)
(* exchange has failed, the invocation has ended with that error: nothing  *)
(* is started again.                                                       *)
C19_NoAutomaticRetry ==
    InFlow("login") =>
        /\ Count("exchange_refresh_token") <= 1
        /\ Count("browser_open") <= 1
        /\ Count("bind") <= 1
        /\ Count("exchange_code") <= 1
        /\ (Has("browser_open") /\ ~Has("bind") /\ flow.pc # "bind") =>
              (FailedWith("BrowserError") \/ FailedWith("CallbackBindError"))
        /\ (Has("close_listener") /\ flow.code = None) =>
              /\ flow.pc = "done"
              /\ ~flow.result.ok
              /\ flow.result.value.kind \in
                    {"CallbackTimeoutError", "CallbackParseError", "CallbackPathMismatch",
                     "CsrfMismatch", "MissingAuthorizationCode", "AuthorizationDenied", "IoError"}
        /\ (Has("exchange_code") /\ ~Has("exchange_ok")) => FailedWith("TokenExchangeError")

C19_Witness ==
    /\ InFlow("login") /\ Has("refresh_rejected")
    /\ FailedWith("MissingAuthorizationCode")
    /\ Count("browser_open") = 1 /\ Count("bind") = 1

ParsedOutcome == Unwrap(flow.response).code
TargetPath == Unwrap(flow.redirect_target).path
OutcomeIs(kind) == IsSome(ParsedOutcome.err) /\ Unwrap(ParsedOutcome.err).kind = kind

(* C21: the matching rules are applied in the order path, error, state,    *)
(* code, and the first that fails decides: another path gives              *)
(* CallbackPathMismatch whatever the query; else an error parameter gives  *)
(* AuthorizationDenied with its text, also when the state is wrong or      *)
(* missing; else a wrong or missing state gives CsrfMismatch, also when    *)
(* the code is missing; else a missing code gives                          *)
(* MissingAuthorizationCode; and the code is returned only when all four   *)
(* rules pass, and then it is the code of the request.                     *)
C21_MatchingRuleOrder ==
    (InFlow("login") /\ flow.pc = "respond") =>
        LET r == AcceptedRequest IN
        /\ r.path # TargetPath => OutcomeIs("CallbackPathMismatch")
        /\ (r.path = TargetPath /\ IsSome(r.error)) =>
              (OutcomeIs("AuthorizationDenied")
                 /\ Unwrap(ParsedOutcome.err).detail = Unwrap(r.error))
        /\ (r.path = TargetPath /\ r.error = None /\ r.state # flow.csrf_state) =>
              OutcomeIs("CsrfMismatch")
        /\ (r.path = TargetPath /\ r.error = None /\ r.state = flow.csrf_state
               /\ r.code = None) => OutcomeIs("MissingAuthorizationCode")
        /\ (r.path = TargetPath /\ r.error = None /\ r.state = flow.csrf_state
               /\ IsSome(r.code)) => (ParsedOutcome.err = None /\ ParsedOutcome.ok = r.code)
        /\ ParsedOutcome.err = None =>
              (r.path = TargetPath /\ r.error = None /\ r.state = flow.csrf_state
                 /\ IsSome(r.code))

C21_Witness ==
    /\ InFlow("login") /\ flow.pc = "respond"
    /\ AcceptedRequest.path = TargetPath
    /\ IsSome(AcceptedRequest.error)
    /\ AcceptedRequest.state = Some(<<"f">>)
    /\ AcceptedRequest.code = None
    /\ OutcomeIs("AuthorizationDenied")

ParsedAndReturned ==
    /\ InFlow("login") /\ Has("read") /\ ArgOf("read").kind = "ok"
    /\ Has("close_listener")
MatchFailures == {"CallbackPathMismatch", "AuthorizationDenied", "CsrfMismatch",
                  "MissingAuthorizationCode"}

C23_ForcedConsent ==
    (InFlow("login") /\ Has("browser_open")) =>
        /\ ArgOf("browser_open").consent <=>
              (flow.provider = "google" /\ ~Has("exchange_refresh_token"))
        /\ Has("exchange_refresh_token") <=> IsSome(flow.stored_refresh)
        /\ Has("refresh_rejected") =>
              (~ArgOf("browser_open").consent
                 /\ IndexOf("clear_refresh_token") < IndexOf("browser_open"))
        /\ flow.provider = "outlook" => ~ArgOf("browser_open").consent

C23_Witness ==
    /\ InFlow("login") /\ flow.provider = "google"
    /\ Has("refresh_rejected") /\ Has("browser_open")
    /\ ~ArgOf("browser_open").consent
    /\ flow.pc = "bind"

(* ---- the inbox adapters *)
InboxReturned == inbox.pc \in { "done", "returned" }
InboxOk == InboxReturned /\ Unwrap(inbox.result).ok
InboxMessages == Unwrap(inbox.result).value.messages
InboxOf(provider) == inbox.provider = Some(provider)
(* The names of the headers a Gmail detail response carries. *)
HeaderNames(detail) ==
    IF detail.payload = None THEN {}
    ELSE IF Unwrap(detail.payload).headers = None THEN {}
    ELSE { Unwrap(Unwrap(detail.payload).headers)[i].name :
             i \in 1..Len(Unwrap(Unwrap(detail.payload).headers)) }
OrderPreserved ==
    /\ Len(InboxMessages) = Len(inbox.listed)
    /\ \A i \in 1..Len(inbox.listed) :
         InboxMessages[i] = IF InboxOf("google") THEN google_message(inbox.listed[i])
                            ELSE outlook_message(inbox.listed[i])
OneDetailPerId ==
    InboxOf("google") =>
        /\ inbox.detail_requests <= Len(inbox.listed)
        /\ InboxOk => inbox.detail_requests = Len(inbox.listed)
        /\ (InboxReturned /\ inbox.detail_requests < Len(inbox.listed)) => ~InboxOk

(* C24: for both providers and whatever the provider answers, a returned   *)
(* LoginResult holds at most MESSAGE_LIMIT (20) messages, in the order the *)
(* provider listed them; for Google every listed id costs one detail       *)
(* request and a failed detail request fails the whole fetch.              *)
C24_InboxBounded ==
    /\ OneDetailPerId
    /\ InboxOk => (OrderPreserved /\ Len(InboxMessages) <= MESSAGE_LIMIT)

(* The parts of C24 that do not depend on the provider honouring the cap. *)
InboxOrderAndDetails == OneDetailPerId /\ (InboxOk => OrderPreserved)

(* C25: in a returned LoginResult, a message whose upstream entry has no   *)
(* subject, sender, date or body preview carries the fixed placeholder in  *)
(* that field, never the empty string; the account is the placeholder when *)
(* no identity field is present, and for Outlook it is mail, else          *)
(* userPrincipalName, else the placeholder.                                *)
C25_Placeholders ==
    InboxOk =>
      /\ Len(InboxMessages) = Len(inbox.listed)
      /\ \A i \in 1..Len(inbox.listed) :
           LET up == inbox.listed[i]
               m == InboxMessages[i]
           IN  IF InboxOf("google")
               THEN /\ "Subject" \notin HeaderNames(up) => m.subject = NO_SUBJECT
                    /\ "From" \notin HeaderNames(up) => m.from = UNKNOWN
                    /\ "Date" \notin HeaderNames(up) => m.date = UNKNOWN
                    /\ up.snippet = None => m.body = NO_BODY
                    /\ m.body # <<>>
               ELSE /\ up.subject = None => m.subject = NO_SUBJECT
                    /\ (\/ up.from = None
                        \/ Unwrap(up.from).email_address = None
                        \/ Unwrap(Unwrap(up.from).email_address).address = None)
                         => m.from = UNKNOWN
                    /\ up.received_date_time = None => m.date = UNKNOWN
                    /\ up.body_preview = None => m.body = NO_BODY
                    /\ m.body # <<>>
      /\ LET account == Unwrap(inbox.result).value.account
             me == Unwrap(inbox.me)
         IN  IF InboxOf("google")
             THEN me = None => account = UNKNOWN_ACCOUNT
             ELSE /\ IsSome(me.mail) => account = Unwrap(me.mail)
                  /\ (me.mail = None /\ IsSome(me.user_principal_name))
                       => account = Unwrap(me.user_principal_name)
                  /\ (me.mail = None /\ me.user_principal_name = None)
                       => account = UNKNOWN_ACCOUNT

(* An Outlook message without subject, sender, date and preview, for an    *)
(* account known by its userPrincipalName only, was returned.              *)
C25_Witness ==
    /\ InboxOk /\ InboxOf("outlook")
    /\ inbox.listed = <<GraphMessage(None, None, None, None)>>
    /\ InboxMessages = <<MailMessage(NO_SUBJECT, UNKNOWN, UNKNOWN, NO_BODY)>>
    /\ Unwrap(inbox.me).mail = None
    /\ Unwrap(inbox.result).value.account = <<"u">>

(* ---- the order of the orchestrator's states *)
TokensObtained == { i \in 1..Len(trace) : trace[i].ev \in { "refresh_ok", "exchange_ok" } }
FlowFailed == flow.pc = "done" /\ ~flow.result.ok
OrchestratorOrder ==
    /\ Count("fetch_inbox") <= 1
    /\ Cardinality(TokensObtained) <= 1
    /\ Has("fetch_inbox") =>
         /\ flow.pc = "done"
         /\ \E j \in TokensObtained :
              /\ j < IndexOf("fetch_inbox")
              /\ ArgOf("fetch_inbox") = trace[j].arg.access_token
    /\ (Has("exchange_code") /\ ~Has("exchange_ok")) =>
         (FailedWith("TokenExchangeError") /\ ~Has("fetch_inbox"))
    /\ (FlowFailed /\ flow.result.value.kind # "UpstreamApiError") => ~Has("fetch_inbox")
    /\ (FlowFailed /\ flow.result.value.kind \notin { "UpstreamApiError", "TokenExchangeError" }) =>
         (~Has("exchange_code") /\ TokensObtained = {})
    /\ (FlowFailed /\ flow.result.value.kind \in
            { "MissingCredentials", "ValidationError", "ConfigurationError" }) => trace = <<>>
    /\ (InFlow("restore") /\ Has("refresh_rejected")) =>
         (flow.pc = "done" /\ trace[Len(trace)].ev = "clear_refresh_token")

(* C26 as stated: in every invocation of login_and_fetch or                *)
(* try_restore_session the inbox adapter is invoked at most once, only     *)
(* after a token exchange succeeded in that invocation and with the access *)
(* token it returned; a failure in any state, the refresh attempt          *)
(* included, ends the invocation without reaching a later state.           *)
C26_AsStated ==
    /\ OrchestratorOrder
    /\ Has("refresh_rejected") =>
         (flow.pc = "done" /\ trace[Len(trace)].ev = "clear_refresh_token")

(* C26, amended: as above, except that in login_and_fetch a failed refresh *)
(* exchange does not end the invocation: the stored token is cleared and   *)
(* the flow continues with interactive authorization, from where it may    *)
(* obtain tokens and fetch the inbox.                                      *)
C26_StateOrder ==
    /\ OrchestratorOrder
    /\ (InFlow("login") /\ Has("refresh_rejected")) =>
         /\ IndexOf("clear_refresh_token") = IndexOf("refresh_rejected") + 1
         /\ flow.pc # "refresh"
         /\ ~Has("refresh_ok")
         /\ Has("fetch_inbox") => Has("exchange_ok")

(* A login whose stored token was rejected went through the browser,       *)
(* exchanged a code and fetched the inbox with the token of that exchange. *)
C26_Witness ==
    /\ InFlow("login") /\ Has("refresh_rejected") /\ Has("exchange_ok") /\ Has("fetch_inbox")
    /\ flow.pc = "done" /\ flow.result.ok
    /\ ArgOf("fetch_inbox") = <<"U">>

(* ---- the refresh token after a login *)
LoginSucceeded == InFlow("login") /\ flow.pc = "done" /\ flow.result.ok
ObtainedTokenSet == trace[CHOOSE i \in TokensObtained : TRUE].arg
HoldsRefreshToken == IsSome(load_refresh_token(oauth_tokens, flow.provider))
CarriedRefreshToken(token_set) ==
    IsSome(token_set.refresh_token) /\ Trim(Unwrap(token_set.refresh_token)) # <<>>

TokenRow(token) == [provider |-> flow.provider, refresh_token |-> token]

(* C28: when the inbox or identity fetch fails after a successful refresh  *)
(* or code exchange, login_and_fetch and try_restore_session return an     *)
(* error (try_restore_session not "no session"); the refresh token that    *)
(* was persisted before the fetch is still in the store, neither cleared   *)
(* nor reverted to the one it replaced; and nothing follows the failed     *)
(* fetch, in particular login_and_fetch does not open the browser.         *)
C28_InboxFailureKeepsTokens ==
    Has("inbox_failed") =>
        /\ FailedWith("UpstreamApiError")
        /\ flow.result # restore_rejected_result
        /\ TokensObtained # {}
        /\ IsSome(ObtainedTokenSet.refresh_token) =>
              /\ StoredRows(flow.provider) = { TokenRow(Unwrap(ObtainedTokenSet.refresh_token)) }
              /\ IndexOf("save_refresh_token") < IndexOf("fetch_inbox")
        /\ (Has("refresh_ok") /\ ObtainedTokenSet.refresh_token = None) =>
              StoredRows(flow.provider) = { TokenRow(Unwrap(flow.stored_refresh)) }
        /\ Has("clear_refresh_token") => IndexOf("clear_refresh_token") < IndexOf("fetch_inbox")
        /\ Has("browser_open") => IndexOf("browser_open") < IndexOf("exchange_ok")
        /\ Has("refresh_ok") => ~Has("browser_open")
        /\ trace[Len(trace)].ev = "inbox_failed"
        /\ IndexOf("inbox_failed") = IndexOf("fetch_inbox") + 1

(* A restore rotated the stored token R to Q and then failed to fetch the  *)
(* inbox.                                                                  *)
C28_Witness ==
    /\ InFlow("restore") /\ Has("inbox_failed")
    /\ flow.stored_refresh = Some(<<"R">>)
    /\ ObtainedTokenSet.refresh_token = Some(<<"Q">>)
    /\ StoredRows(flow.provider) = { TokenRow(<<"Q">>) }

(* ---- a valid callback and the code exchange *)
ValidCallback(request) ==
    /\ request.kind = "ok"
    /\ request.path = TargetPath
    /\ request.error = None
    /\ ~StateMismatch(request)
    /\ IsSome(request.code)

(* C29: once the wait for the callback is over, a callback whose path      *)
(* matches, whose state equals the issued CSRF token and which carries a   *)
(* code (and no error parameter) has its code exchanged at the token       *)
(* endpoint, or about to be, whether or not the browser connection could   *)
(* still take the HTTP response.                                           *)
C29_ValidCallbackExchanged ==
    (InFlow("login") /\ Has("accept") /\ Has("close_listener")
       /\ ValidCallback(AcceptedRequest)) =>
        /\ flow.pc = "exchange" \/ Has("exchange_code")
        /\ Has("exchange_code") => ArgOf("exchange_code") = Unwrap(AcceptedRequest.code)

(* ---- the redirect URI and the stored token *)
UsableCredentials(provider) ==
    LET creds == load_provider_credentials(oauth_settings, env, provider) IN
    IsSome(creds) /\ validate_credentials(provider, Unwrap(creds)) = None
RedirectFailures == { "ConfigurationError", "ValidationError" }

(* C30: a call of login_and_fetch made with usable credentials and a       *)
(* redirect URI that does not resolve to a loopback target fails at once   *)
(* with the redirect error: no token-endpoint request, no browser, no      *)
(* listener, and the store is left exactly as it was, also when it holds a *)
(* refresh token that would not have needed the listener.                  *)
C30_RedirectBeforeToken ==
    [][(flow.pc = "idle" /\ flow'.op = "login"
          /\ UsableCredentials(flow'.provider) /\ ~Resolvable(ConfiguredUri)) =>
            /\ flow'.pc = "done" /\ ~flow'.result.ok
            /\ flow'.result.value.kind \in RedirectFailures
            /\ flow'.stored_refresh = None
            /\ trace' = <<>>
            /\ listener' = "unbound"
            /\ oauth_tokens' = oauth_tokens]_vars

(* A login failed on its redirect URI while a usable refresh token was in  *)
(* the store.                                                              *)
C30_Witness ==
    /\ InFlow("login") /\ FailedWith("ConfigurationError")
    /\ UsableCredentials(flow.provider) /\ ~Resolvable(ConfiguredUri)
    /\ load_refresh_token(oauth_tokens, flow.provider) = Some(<<"R">>)
    /\ trace = <<>>

(* ---- what save_credentials leaves alone *)
OtherRows(table, provider) == { r \in table : r.provider # provider }

(* C31: a call of save_credentials for one provider changes nothing but    *)
(* that provider's row of credentials: the other provider's credentials    *)
(* and the stored refresh tokens of both providers, the one obtained under *)
(* the provider's previous client_id included, are what they were; a       *)
(* refused save changes nothing at all.                                    *)
C31_SaveCredentialsFrame ==
    [][(flow.pc = "idle" /\ flow'.op = "save") =>
            /\ oauth_tokens' = oauth_tokens
            /\ OtherRows(oauth_settings', flow'.provider) = OtherRows(oauth_settings, flow'.provider)
            /\ Cardinality(oauth_settings' \ OtherRows(oauth_settings', flow'.provider)) <= 1
            /\ ~flow'.result.ok => oauth_settings' = oauth_settings]_vars

(* Credentials were saved for a provider that holds a refresh token, while *)
(* the other provider has credentials and a refresh token of its own.      *)
C31_Witness ==
    /\ InFlow("save") /\ flow.pc = "done" /\ flow.result.ok
    /\ load_refresh_token(oauth_tokens, flow.provider) = Some(<<"R">>)
    /\ OtherRows(oauth_settings, flow.provider) # {}
    /\ OtherRows(oauth_tokens, flow.provider) # {}

(* ---- the Working state of the application *)
(* C32: UiState::Working is left only by the completion message of the     *)
(* operation that entered it, so for as long as a save or a login started  *)
(* by the user is in flight the state is Working and the login and save    *)
(* buttons are disabled.                                                   *)
C32_WorkingUntilDone ==
    (tasks.login > 0 \/ tasks.save > 0) => is_working(app)

(* ---- the selected message *)
SelectionInRange(a) ==
    a.selected_message = None \/ Unwrap(a.selected_message) < Len(a.messages)
Handled(ev) == trace' # trace /\ trace'[1].ev = ev

(* C33: after any sequence of UI messages selected_message is None or an   *)
(* index smaller than messages.len(); a SelectMessage whose index is out   *)
(* of range leaves the selection, and the rest of the application state,   *)
(* as it was; and a SelectFolder of any folder other than Inbox leaves no  *)
(* message selected.                                                       *)
C33_SelectionInRange ==
    [][/\ SelectionInRange(app')
       /\ (Handled("SelectMessage") /\ trace'[1].arg >= Len(app.messages)) => app' = app
       /\ (Handled("SelectMessage") /\ trace'[1].arg < Len(app.messages)) =>
             app'.selected_message = Some(trace'[1].arg)
       /\ Handled("SelectFolder") =>
             /\ app'.selected_folder = trace'[1].arg
             /\ app'.selected_folder # "Inbox" => app'.selected_message = None]_vars

(* With two messages listed and the second one selected, a SelectMessage   *)
(* with index 2 was handled.                                               *)
C33_Witness ==
    /\ Len(app.messages) = 2
    /\ app.selected_message = Some(1)
    /\ trace = <<Event("SelectMessage", 2)>>

====
